---- MODULE Spec2Model ----
(***************************************************************************)
(* A model of the reg.ru DNS client (package regru): the request shaping   *)
(* helpers, the transport function apiRequest, the record operations       *)
(* AddRR, DeleteRR and UpdateRR and the listing operations ListZones,      *)
(* ListZonesByName, ListRecords, GetRRByName and ListRecordsByZoneID, run   *)
(* by callers against a remote zone.                                       *)
(*                                                                         *)
(* A caller's operation is cut at the points where it blocks on the HTTP   *)
(* round trip: one action issues the request (the remote service handles   *)
(* it and its response is then in flight), the next action is the rest of  *)
(* the operation from the moment http.Client.Do returns.                   *)
(***************************************************************************)
EXTENDS Integers, Sequences, FiniteSets, TLC

(***************************************************************************)
(* Bounds of the model.                                                    *)
(***************************************************************************)
\* Operations each caller runs, one after the other.
MaxOps == 1

(***************************************************************************)
(* Program constants.                                                      *)
(***************************************************************************)
RecordTypeA == "A"
RecordTypeAAAA == "AAAA"
RecordTypeCNAME == "CNAME"
RecordTypeMX == "MX"
RecordTypeNS == "NS"
RecordTypeTXT == "TXT"

\* http.StatusOK
StatusOK == 200

\* The fixed enumeration of record types.
RecordTypes ==
    {RecordTypeA, RecordTypeAAAA, RecordTypeCNAME, RecordTypeMX, RecordTypeNS, RecordTypeTXT}

(***************************************************************************)
(* Inputs the callers draw their arguments from.                           *)
(***************************************************************************)
UnsupportedTypes == {"UNSUPPORTED", ""}
TypeInputs == RecordTypes \cup UnsupportedTypes
ZoneInputs == {"example.com"}
NameInputs == {"www"}
OldContent == "192.0.2.1"
NewContent == "192.0.2.3"
ContentInputs == {OldContent, NewContent}
TTLInputs == {0, 3600}
\* The TTLs createAddRecordRequest is called with on its own.
CreateTTLInputs == {-1, 0, 1, 3600}
StatusInputs == {199, 200, 201, 204, 299, 300, 404, 500}

Callers == {1, 2}

\* The credentials the client was constructed with (NewClient).
Username == "test-username"
Password == "test-password"

(***************************************************************************)
(* Values: records, errors, response bodies.                               *)
(***************************************************************************)
\* DNSRecord{} : the zero value.
ZeroRecord == [Name |-> "", Type |-> "", Content |-> "", TTL |-> 0, ID |-> ""]

DNSRecord(name, type, content, ttl) ==
    [Name |-> name, Type |-> type, Content |-> content, TTL |-> ttl, ID |-> ""]

RecordInputs ==
    {DNSRecord(n, t, c, ttl) : n \in NameInputs, t \in TypeInputs,
                               c \in ContentInputs, ttl \in TTLInputs}

\* CreateDNSRecordParams createAddRecordRequest is called with on its own.
CreateParamsInputs ==
    {DNSRecord("www", t, OldContent, ttl) : t \in TypeInputs, ttl \in CreateTTLInputs}

\* A response body as the decoders see it: raw is the text of a body that
\* is no JSON document; envelope_ok says json.Unmarshal into APIResponse
\* succeeds, answer_ok says json.Unmarshal into the response structure of
\* the method (AddNSResponse, ServiceListResponse,
\* ZoneGetResourceRecordsResponse) succeeds.
Body(raw, envelope_ok, answer_ok, error_text, domains) ==
    [raw |-> raw, envelope_ok |-> envelope_ok, answer_ok |-> answer_ok,
     error_text |-> error_text, domains |-> domains]

\* A nil []byte.
NilBody == Body("<nil>", FALSE, FALSE, "", <<>>)

DomainResult(dname, result, dns_id) ==
    [DName |-> dname, Result |-> result, DNSID |-> dns_id]

SuccessBody(zone, id) == Body("", TRUE, TRUE, "", <<DomainResult(zone, "success", id)>>)
ErrorTextBody == Body("", TRUE, TRUE, "Invalid credentials", <<>>)
PlainBody == Body("Internal Server Error", FALSE, FALSE, "", <<>>)
\* {"error_text": 5, "answer": {...}} : no APIResponse, a fine AddNSResponse.
BadEnvelopeBody ==
    Body("", FALSE, TRUE, "", <<DomainResult("example.com", "success", "12345")>>)
\* {"answer": "x"} : a fine APIResponse, no AddNSResponse.
BadAnswerBody == Body("", TRUE, FALSE, "", <<>>)
DomainErrorBody(zone) == Body("", TRUE, TRUE, "", <<DomainResult(zone, "error", "")>>)
NoDomainsBody == Body("", TRUE, TRUE, "", <<>>)
\* An answer that reports another domain first, then the requested one.
OtherDomainID == "99999"
OtherDomainFirstBody(zone, id) ==
    Body("", TRUE, TRUE, "",
         <<DomainResult("other.org", "success", OtherDomainID),
           DomainResult(zone, "success", id)>>)

\* The errors of the package, as one record shape.
NoError ==
    [kind |-> "nil", StatusCode |-> 0, Body |-> NilBody, Message |-> "", RecordType |-> "",
     RecordName |-> "", ZoneID |-> "", Cause |-> ""]
APIError(message) == [NoError EXCEPT !.kind = "APIError", !.Message = message]
HTTPError(status, body) ==
    [NoError EXCEPT !.kind = "HTTPError", !.StatusCode = status, !.Body = body]
UnsupportedRecordTypeError(recordType) ==
    [NoError EXCEPT !.kind = "UnsupportedRecordTypeError", !.RecordType = recordType]
RecordNotFoundError(recordName) ==
    [NoError EXCEPT !.kind = "RecordNotFoundError", !.RecordName = recordName]
ZoneNotFoundError(zoneID) ==
    [NoError EXCEPT !.kind = "ZoneNotFoundError", !.ZoneID = zoneID]
\* fmt.Errorf("<message>: %w", err)
WrappedError(message) == [NoError EXCEPT !.kind = "error", !.Message = message]

\* fmt.Errorf("<message>: %w", err) of an err told apart by its text: Cause
\* is the text of what Unwrap gives.
WrappedCause(message, cause) == [WrappedError(message) EXCEPT !.Cause = cause]

\* errors.New(text)
ErrorString(text) == [NoError EXCEPT !.kind = "errorString", !.Message = text]

\* The predefined errors to check with errors.Is.
ErrUnsupportedRecordType == ErrorString("unsupported record type")
ErrRecordNotFound == ErrorString("record not found")
ErrZoneNotFound == ErrorString("zone not found")

\* Is methods that match every predefined error.
IsAnyPredefined(e, target) ==
    /\ e.kind \in {"UnsupportedRecordTypeError", "RecordNotFoundError", "ZoneNotFoundError"}
    /\ target \in {ErrUnsupportedRecordType, ErrRecordNotFound, ErrZoneNotFound}

\* The Is method of e's type; APIError, HTTPError and the errors of
\* fmt.Errorf and errors.New have none.
Is(e, target) ==
    CASE e.kind = "UnsupportedRecordTypeError" -> target = ErrUnsupportedRecordType
      [] e.kind = "RecordNotFoundError" -> target = ErrRecordNotFound
      [] e.kind = "ZoneNotFoundError" -> target = ErrZoneNotFound
      [] OTHER -> FALSE

\* What http.Client.Do and the read of the body give: doErr says Do
\* returned an error and cause is that error's text where it is told apart;
\* body is the bytes io.ReadAll yields and readErr whether it yields them
\* with an error.
Response(doErr, status, body, readErr) ==
    [doErr |-> doErr, status |-> status, body |-> body, readErr |-> readErr, cause |-> ""]

NoResponse == Response(TRUE, 0, NilBody, FALSE)

\* context.Canceled, and what Do gives when the request's context is
\* cancelled while the call is in flight.
ContextCanceled == ErrorString("context canceled")
CanceledResponse == [NoResponse EXCEPT !.cause = ContextCanceled.Message]

(***************************************************************************)
(* Listing values: a JSON object is a record keyed by the names of the     *)
(* document, a Go value held in an interface{} is a record with its        *)
(* dynamic type.                                                           *)
(***************************************************************************)
\* The value of a key of a JSON object, or def when the object lacks it
\* (json.Unmarshal leaves the field at its zero value).
Field(obj, key, def) == IF key \in DOMAIN obj THEN obj[key] ELSE def

\* JSON values a service_id is given as: a string, or a number written
\* as n, as n.5 (half) or as n followed by exp10 zeros.
JSONString(text) == [json |-> "string", text |-> text]
JSONNumber(n, half, exp10) == [json |-> "number", n |-> n, half |-> half, exp10 |-> exp10]

\* The dynamic values of Service.ServiceID.  A float64 stands for
\* (n + 1/2 if half) * 10^exp10, a value float64 holds exactly.
GoNil == [type |-> "nil"]
GoString(str) == [type |-> "string", s |-> str]
GoInt(n) == [type |-> "int", n |-> n]
GoFloat64(n, half, exp10) == [type |-> "float64", n |-> n, half |-> half, exp10 |-> exp10]

\* json.Unmarshal into an interface{}: a string stays a string, every
\* number becomes a float64.
UnmarshalInterface(v) ==
    IF v.json = "string" THEN GoString(v.text) ELSE GoFloat64(v.n, v.half, v.exp10)

\* json.Unmarshal into a Service.
Service(obj) ==
    [ServiceType |-> Field(obj, "service_type", ""),
     ServType |-> Field(obj, "servtype", ""),
     Domain |-> Field(obj, "domain", ""),
     DName |-> Field(obj, "dname", ""),
     ServiceID |-> IF "service_id" \in DOMAIN obj
                   THEN UnmarshalInterface(obj.service_id) ELSE GoNil]

\* GetServiceType that prefers the legacy spelling.
GetServiceTypeLegacyFirst(sv) == IF sv.ServType # "" THEN sv.ServType ELSE sv.ServiceType

GetServiceType(sv) == IF sv.ServiceType # "" THEN sv.ServiceType ELSE sv.ServType

\* GetDomain that reads the domain field alone.
GetDomainNoFallback(sv) == sv.Domain

GetDomain(sv) == IF sv.Domain # "" THEN sv.Domain ELSE sv.DName

\* The decimal digits.
DigitChar ==
    [d \in 0..9 |->
       CASE d = 0 -> "0" [] d = 1 -> "1" [] d = 2 -> "2" [] d = 3 -> "3" [] d = 4 -> "4"
         [] d = 5 -> "5" [] d = 6 -> "6" [] d = 7 -> "7" [] d = 8 -> "8" [] d = 9 -> "9"]

RECURSIVE FormatNat(_)
FormatNat(n) == IF n < 10 THEN DigitChar[n] ELSE FormatNat(n \div 10) \o DigitChar[n % 10]

\* fmt.Sprintf("%d", n)
FormatD(n) == IF n < 0 THEN "-" \o FormatNat(-n) ELSE FormatNat(n)

RECURSIVE Zeros(_)
Zeros(k) == IF k = 0 THEN "" ELSE "0" \o Zeros(k - 1)

\* fmt.Sprintf("%.0f", v) of a float64 no less than 0: the value rounded
\* to an integer, a tie to the even neighbour, written in full.
FormatF0(v) ==
    IF v.half
    THEN FormatNat(IF v.n % 2 = 0 THEN v.n ELSE v.n + 1)
    ELSE IF v.n = 0 THEN "0" ELSE FormatNat(v.n) \o Zeros(v.exp10)

\* fmt.Sprintf("%f", v): six fractional digits.
FormatF6(v) ==
    (IF v.n = 0 THEN "0" ELSE FormatNat(v.n) \o Zeros(v.exp10))
      \o (IF v.half THEN ".500000" ELSE ".000000")

\* GetServiceID that formats a float64 with the verb %f.
GetServiceIDFraction(sv) ==
    LET v == sv.ServiceID IN
    CASE v.type = "int" -> FormatD(v.n)
      [] v.type = "float64" -> FormatF6(v)
      [] v.type = "string" -> v.s
      [] OTHER -> "<nil>"

GetServiceID(sv) ==
    LET v == sv.ServiceID IN
    CASE v.type = "int" -> FormatD(v.n)
      [] v.type = "float64" -> FormatF0(v)
      [] v.type = "string" -> v.s
      [] OTHER -> "<nil>"  \* fmt.Sprintf("%v", nil)

\* Zone{Name: name, ID: id}
Zone(name, id) == [ID |-> id, Name |-> name]

(***************************************************************************)
(* Request shaping.                                                        *)
(***************************************************************************)
\* getAddRecordPath with the AAAA case returning the A endpoint.
getAddRecordPathSlip(recordType) ==
    CASE recordType = RecordTypeA -> [path |-> "zone/add_alias", err |-> NoError]
      [] recordType = RecordTypeAAAA -> [path |-> "zone/add_alias", err |-> NoError]
      [] recordType = RecordTypeCNAME -> [path |-> "zone/add_cname", err |-> NoError]
      [] recordType = RecordTypeMX -> [path |-> "zone/add_mx", err |-> NoError]
      [] recordType = RecordTypeNS -> [path |-> "zone/add_ns", err |-> NoError]
      [] recordType = RecordTypeTXT -> [path |-> "zone/add_txt", err |-> NoError]
      [] OTHER -> [path |-> "", err |-> UnsupportedRecordTypeError(recordType)]

getAddRecordPath(recordType) ==
    CASE recordType = RecordTypeA -> [path |-> "zone/add_alias", err |-> NoError]
      [] recordType = RecordTypeAAAA -> [path |-> "zone/add_aaaa", err |-> NoError]
      [] recordType = RecordTypeCNAME -> [path |-> "zone/add_cname", err |-> NoError]
      [] recordType = RecordTypeMX -> [path |-> "zone/add_mx", err |-> NoError]
      [] recordType = RecordTypeNS -> [path |-> "zone/add_ns", err |-> NoError]
      [] recordType = RecordTypeTXT -> [path |-> "zone/add_txt", err |-> NoError]
      [] OTHER -> [path |-> "", err |-> UnsupportedRecordTypeError(recordType)]

\* getRemoveRecordPath with one endpoint per record type.
getRemoveRecordPathPerType(recordType) ==
    CASE recordType = RecordTypeA -> [path |-> "zone/remove_alias", err |-> NoError]
      [] recordType = RecordTypeAAAA -> [path |-> "zone/remove_aaaa", err |-> NoError]
      [] recordType = RecordTypeCNAME -> [path |-> "zone/remove_cname", err |-> NoError]
      [] recordType = RecordTypeMX -> [path |-> "zone/remove_mx", err |-> NoError]
      [] recordType = RecordTypeNS -> [path |-> "zone/remove_ns", err |-> NoError]
      [] recordType = RecordTypeTXT -> [path |-> "zone/remove_txt", err |-> NoError]
      [] OTHER -> [path |-> "", err |-> UnsupportedRecordTypeError(recordType)]

getRemoveRecordPath(recordType) ==
    IF recordType \in {RecordTypeA, RecordTypeAAAA, RecordTypeCNAME,
                       RecordTypeMX, RecordTypeNS, RecordTypeTXT}
    THEN [path |-> "zone/remove_record", err |-> NoError]
    ELSE [path |-> "", err |-> UnsupportedRecordTypeError(recordType)]

\* BaseRequest{} : no credentials yet.
BaseRequest == [Username |-> "", Password |-> ""]

\* A nil APIRequest.
NilRequest == [shape |-> "nil"]

\* A request builder that copies params.TTL into the request as it is.
SetTTLUnguarded(ttl) == ttl

\* The value of the TTL field after `if params.TTL > 0 { req.TTL = params.TTL }`.
SetTTL(ttl) == IF ttl > 0 THEN ttl ELSE 0

\* createAddRecordRequest: the request structure of the record's type.
\* createAddRecordRequest whose cases all build the request of zone/add_alias.
createAddRecordRequestAliasShape(zone, params) ==
    IF params.Type \in RecordTypes
    THEN [req |-> [shape |-> "AddAliasRequest", BaseRequest |-> BaseRequest,
                   Domains |-> <<[DName |-> zone]>>, Subdomain |-> params.Name,
                   IPAddr |-> params.Content, TTL |-> SetTTL(params.TTL)],
          err |-> NoError]
    ELSE [req |-> NilRequest, err |-> UnsupportedRecordTypeError(params.Type)]

createAddRecordRequest(zone, params) ==
    CASE params.Type = RecordTypeA ->
           [req |-> [shape |-> "AddAliasRequest", BaseRequest |-> BaseRequest,
                     Domains |-> <<[DName |-> zone]>>, Subdomain |-> params.Name,
                     IPAddr |-> params.Content, TTL |-> SetTTL(params.TTL)],
            err |-> NoError]
      [] params.Type = RecordTypeAAAA ->
           [req |-> [shape |-> "AddAAAARequest", BaseRequest |-> BaseRequest,
                     Domains |-> <<[DName |-> zone]>>, Subdomain |-> params.Name,
                     IPAddr |-> params.Content, TTL |-> SetTTL(params.TTL)],
            err |-> NoError]
      [] params.Type = RecordTypeCNAME ->
           [req |-> [shape |-> "AddCNAMERequest", BaseRequest |-> BaseRequest,
                     Domains |-> <<[DName |-> zone]>>, Subdomain |-> params.Name,
                     CanonicalName |-> params.Content, TTL |-> SetTTL(params.TTL)],
            err |-> NoError]
      [] params.Type = RecordTypeMX ->
           [req |-> [shape |-> "AddMXRequest", BaseRequest |-> BaseRequest,
                     Domains |-> <<[DName |-> zone]>>, Subdomain |-> params.Name,
                     MailServer |-> params.Content, TTL |-> SetTTL(params.TTL)],
            err |-> NoError]
      [] params.Type = RecordTypeNS ->
           [req |-> [shape |-> "AddNSRequest", BaseRequest |-> BaseRequest,
                     Domains |-> <<[DName |-> zone]>>, Subdomain |-> params.Name,
                     DNSServer |-> params.Content, RecordNumber |-> "",
                     TTL |-> SetTTL(params.TTL)],
            err |-> NoError]
      [] params.Type = RecordTypeTXT ->
           [req |-> [shape |-> "AddTXTRequest", BaseRequest |-> BaseRequest,
                     Domains |-> <<[DName |-> zone]>>, Subdomain |-> params.Name,
                     Text |-> params.Content, TTL |-> SetTTL(params.TTL)],
            err |-> NoError]
      [] OTHER -> [req |-> NilRequest, err |-> UnsupportedRecordTypeError(params.Type)]

\* The typed wrapper createRemoveRecordRequest returns for a record type.
RemoveShape(type) ==
    CASE type = RecordTypeA -> "RemoveAliasRequest"
      [] type = RecordTypeAAAA -> "RemoveAAAARequest"
      [] type = RecordTypeCNAME -> "RemoveCNAMERequest"
      [] type = RecordTypeMX -> "RemoveMXRequest"
      [] type = RecordTypeNS -> "RemoveNSRequest"
      [] type = RecordTypeTXT -> "RemoveTXTRequest"
      [] OTHER -> "nil"

\* createRemoveRecordRequest addressing the record by name and content only,
\* the convention of the per-type removal endpoints.
createRemoveRecordRequestNoType(zone, rr) ==
    IF RemoveShape(rr.Type) = "nil"
    THEN [req |-> NilRequest, err |-> UnsupportedRecordTypeError(rr.Type)]
    ELSE [req |-> [shape |-> RemoveShape(rr.Type), BaseRequest |-> BaseRequest,
                   Domains |-> <<[DName |-> zone]>>, Subdomain |-> rr.Name,
                   Content |-> rr.Content, RecordType |-> ""],
          err |-> NoError]

createRemoveRecordRequest(zone, rr) ==
    IF RemoveShape(rr.Type) = "nil"
    THEN [req |-> NilRequest, err |-> UnsupportedRecordTypeError(rr.Type)]
    ELSE [req |-> [shape |-> RemoveShape(rr.Type), BaseRequest |-> BaseRequest,
                   Domains |-> <<[DName |-> zone]>>, Subdomain |-> rr.Name,
                   Content |-> rr.Content, RecordType |-> rr.Type],
          err |-> NoError]

\* ServiceListRequest{PageSize: 1000}
ServiceListRequest ==
    [shape |-> "ServiceListRequest", BaseRequest |-> BaseRequest, PageSize |-> 1000]

\* ListDNSRecordsParams, the fields ListRecords reads.
ListDNSRecordsParams(zoneName, zoneID, name, type) ==
    [ZoneName |-> zoneName, ZoneID |-> zoneID, Name |-> name, Type |-> type]

\* The zone ListRecords asks for: params.ZoneName, or params.ZoneID when
\* ZoneName is empty.
ListRecordsZoneName(params) ==
    IF params.ZoneName = "" THEN params.ZoneID ELSE params.ZoneName

\* ZoneGetResourceRecordsRequest{Domains: {{DName: zoneName}}}
ZoneGetResourceRecordsRequest(zoneName) ==
    [shape |-> "ZoneGetResourceRecordsRequest", BaseRequest |-> BaseRequest,
     Domains |-> <<[DName |-> zoneName]>>]

\* BaseRequest.SetCredentials
SetCredentials(apiReq, username, password) ==
    [apiReq EXCEPT !.BaseRequest = [Username |-> username, Password |-> password]]

\* The json tag of each field of the request structures.
JSONTag(field) ==
    CASE field = "Domains" -> "domains"
      [] field = "Subdomain" -> "subdomain"
      [] field = "IPAddr" -> "ipaddr"
      [] field = "CanonicalName" -> "canonical_name"
      [] field = "MailServer" -> "mail_server"
      [] field = "DNSServer" -> "dns_server"
      [] field = "RecordNumber" -> "record_number"
      [] field = "Text" -> "text"
      [] field = "TTL" -> "ttl"
      [] field = "Content" -> "content"
      [] field = "RecordType" -> "record_type"
      [] field = "PageSize" -> "page_size"
      [] OTHER -> field

\* Fields tagged omitempty.
OmitEmpty == {"TTL", "RecordNumber", "PageSize"}

IsEmptyValue(field, v) ==
    IF field \in {"TTL", "PageSize"} THEN v = 0 ELSE v = ""

\* json.Marshal of a request structure: the embedded BaseRequest gives
\* username and password, a domain gives {dname}, an omitempty field is
\* left out when it holds its zero value.
Marshal(apiReq) ==
    LET kept == {f \in DOMAIN apiReq \ {"shape", "BaseRequest"} :
                   ~(f \in OmitEmpty /\ IsEmptyValue(f, apiReq[f]))}
        tags == {JSONTag(f) : f \in kept} \cup {"username", "password"}
        fieldOf(t) == CHOOSE f \in kept : JSONTag(f) = t
    IN [t \in tags |->
          IF t = "username" THEN apiReq.BaseRequest.Username
          ELSE IF t = "password" THEN apiReq.BaseRequest.Password
          ELSE IF t = "domains"
               THEN [i \in DOMAIN apiReq.Domains |-> [dname |-> apiReq.Domains[i].DName]]
          ELSE apiReq[fieldOf(t)]]

(***************************************************************************)
(* Transport.                                                              *)
(***************************************************************************)
\* apiRequest up to the call of http.Client.Do: the credentials are set in
\* the request, which is serialised into the input_data form field.
NewRequest(cl, path, apiReq) ==
    [url |-> <<cl.baseURL, path>>,
     path |-> path,
     input_format |-> "json",
     input_data |-> Marshal(SetCredentials(apiReq, cl.username, cl.password)),
     username |-> cl.username,
     password |-> cl.password]

\* apiRequest whose status check lets every status below 500 through.
apiRequestServerErrorsOnly(r) ==
    IF r.doErr
    THEN [body |-> NilBody, err |-> WrappedError("failed to execute request")]
    ELSE IF r.status >= 500
    THEN [body |-> NilBody, err |-> HTTPError(r.status, r.body)]
    ELSE IF r.readErr
    THEN [body |-> NilBody, err |-> WrappedError("failed to read response")]
    ELSE IF r.body.envelope_ok /\ r.body.error_text # ""
    THEN [body |-> NilBody, err |-> APIError(r.body.error_text)]
    ELSE [body |-> r.body, err |-> NoError]

\* apiRequest without the check of the envelope's error_text.
apiRequestNoEnvelopeCheck(r) ==
    IF r.doErr
    THEN [body |-> NilBody, err |-> WrappedError("failed to execute request")]
    ELSE IF r.status # StatusOK
    THEN [body |-> NilBody, err |-> HTTPError(r.status, r.body)]
    ELSE IF r.readErr
    THEN [body |-> NilBody, err |-> WrappedError("failed to read response")]
    ELSE [body |-> r.body, err |-> NoError]

\* apiRequest that formats Do's error into its message with %v.
apiRequestFormatsCause(r) ==
    IF r.doErr
    THEN [body |-> NilBody, err |-> WrappedError("failed to execute request")]
    ELSE IF r.status # StatusOK
    THEN [body |-> NilBody, err |-> HTTPError(r.status, r.body)]
    ELSE IF r.readErr
    THEN [body |-> NilBody, err |-> WrappedError("failed to read response")]
    ELSE IF r.body.envelope_ok /\ r.body.error_text # ""
    THEN [body |-> NilBody, err |-> APIError(r.body.error_text)]
    ELSE [body |-> r.body, err |-> NoError]

\* apiRequest from the return of http.Client.Do on: r is what Do and the
\* read of the body give.
apiRequest(r) ==
    IF r.doErr
    THEN [body |-> NilBody, err |-> WrappedCause("failed to execute request", r.cause)]
    ELSE IF r.status # StatusOK
    THEN [body |-> NilBody, err |-> HTTPError(r.status, r.body)]
    ELSE IF r.readErr
    THEN [body |-> NilBody, err |-> WrappedError("failed to read response")]
    ELSE IF r.body.envelope_ok /\ r.body.error_text # ""
    THEN [body |-> NilBody, err |-> APIError(r.body.error_text)]
    ELSE [body |-> r.body, err |-> NoError]

(***************************************************************************)
(* Listings: the answers of service/get_list and zone/get_resource_records *)
(* and what the client decodes from them.                                  *)
(***************************************************************************)
\* {"answer": {"services": [...]}}
ServiceListBody(services) == Body("", TRUE, TRUE, "", <<>>) @@ [services |-> services]

\* {"answer": {"domains": [...]}}
RecordsBody(domains) == Body("", TRUE, TRUE, "", domains)

\* The service entries a listing is made of: the entries of
\* TestClient_ListZones, an entry in the legacy spelling with a numeric
\* id, a second zone under the id 12345, and a domain entry with no name.
ServiceEntries ==
    {[service_type |-> "domain", domain |-> "example.com", service_id |-> JSONString("12345")],
     [service_type |-> "domain", domain |-> "test.com", service_id |-> JSONString("67890")],
     [service_type |-> "hosting", domain |-> "example.com", service_id |-> JSONString("11111")],
     [servtype |-> "domain", dname |-> "example.com", service_id |-> JSONNumber(12345, FALSE, 0)],
     [service_type |-> "domain", domain |-> "other.org", service_id |-> JSONString("12345")],
     [service_type |-> "domain", service_id |-> JSONString("12345")]}

TestServices ==
    <<[service_type |-> "domain", domain |-> "example.com", service_id |-> JSONString("12345")],
      [service_type |-> "domain", domain |-> "test.com", service_id |-> JSONString("67890")],
      [service_type |-> "hosting", domain |-> "other.com", service_id |-> JSONString("11111")]>>

\* Entries that supply both spellings of the service type and of the
\* domain name, with different values or with the preferred one empty.
BothSpellingsEntries ==
    {[service_type |-> "hosting", servtype |-> "domain", domain |-> "example.com",
      dname |-> "legacy.example", service_id |-> JSONString("12345")],
     [service_type |-> "domain", servtype |-> "hosting", domain |-> "example.com",
      dname |-> "legacy.example", service_id |-> JSONString("12345")],
     [service_type |-> "", servtype |-> "domain", domain |-> "",
      dname |-> "example.com", service_id |-> JSONString("12345")]}

\* A domain entry without a service_id.
NoServiceIDEntry == [service_type |-> "domain", domain |-> "example.com"]

ServiceLists ==
    {<<>>, TestServices} \cup {<<a>> : a \in ServiceEntries}
      \cup {<<a, b>> : a \in ServiceEntries, b \in ServiceEntries}
      \cup {<<a>> : a \in BothSpellingsEntries}
      \cup {<<NoServiceIDEntry>>}

\* Resource records in the shape of zone/get_resource_records.
RREntries ==
    {[subname |-> "www", rectype |-> "A", content |-> "192.0.2.1"],
     [subname |-> "www", rectype |-> "TXT", content |-> "v=spf1 -all"],
     [subname |-> "mail", rectype |-> "MX", content |-> "10 mail.example.com"]}

RRLists ==
    {<<>>} \cup {<<a>> : a \in RREntries} \cup {<<a, b>> : a \in RREntries, b \in RREntries}

\* The three records of TestClient_ListRecords, in the shape of zone/get_ns.
TestNSList ==
    <<[subdomain |-> "www", type |-> "A", content |-> "192.0.2.1", ttl |-> 3600,
       dns_id |-> "11111"],
      [subdomain |-> "@", type |-> "A", content |-> "192.0.2.2", ttl |-> 3600,
       dns_id |-> "22222"],
      [subdomain |-> "mail", type |-> "MX", content |-> "10 mail.example.com", ttl |-> 3600,
       dns_id |-> "33333"]>>

\* The same three records in the shape of zone/get_resource_records.
TestRRList ==
    <<[subname |-> "www", rectype |-> "A", content |-> "192.0.2.1"],
      [subname |-> "@", rectype |-> "A", content |-> "192.0.2.2"],
      [subname |-> "mail", rectype |-> "MX", content |-> "10 mail.example.com"]>>

\* A resource record that carries a ttl and a dns_id besides.
RRWithTTLAndID ==
    [subname |-> "www", rectype |-> "A", content |-> "192.0.2.1", ttl |-> 3600,
     dns_id |-> "11111"]

\* The domains of a records listing asked for the zone dname: the zone
\* with each list of RRLists, the zone after and next to another zone, the
\* zone listed twice, the zone in the shape of zone/get_ns, and the zone
\* with a record that carries a ttl and a dns_id.
DomainLists(dname) ==
    {<<[dname |-> dname, rrs |-> l]>> : l \in RRLists \cup {TestRRList}}
      \cup {<<[dname |-> "elsewhere.net", rrs |-> TestRRList],
              [dname |-> dname, rrs |-> <<TestRRList[3]>>]>>,
            <<[dname |-> dname, rrs |-> <<TestRRList[3]>>],
              [dname |-> dname, rrs |-> <<TestRRList[1]>>]>>,
            <<[dname |-> dname, ns_list |-> TestNSList]>>,
            <<[dname |-> dname, rrs |-> <<RRWithTTLAndID>>]>>}

\* json.Unmarshal into a ResourceRecord and a DomainWithResourceRecords.
ResourceRecord(obj) ==
    [Content |-> Field(obj, "content", ""), Rectype |-> Field(obj, "rectype", ""),
     Subname |-> Field(obj, "subname", "")]

DomainWithResourceRecords(obj) ==
    [DName |-> Field(obj, "dname", ""),
     RRList |-> LET l == Field(obj, "rrs", <<>>) IN [i \in DOMAIN l |-> ResourceRecord(l[i])]]

\* resp.Answer.Services and resp.Answer.Domains after json.Unmarshal.
AnswerServices(body) ==
    LET l == Field(body, "services", <<>>) IN [i \in DOMAIN l |-> Service(l[i])]

AnswerDomains(body) ==
    [i \in DOMAIN body.domains |-> DomainWithResourceRecords(body.domains[i])]

\* ListZones that keeps the services of every type.
RECURSIVE SelectZonesOfAnyType(_)
SelectZonesOfAnyType(services) ==
    IF services = <<>> THEN <<>>
    ELSE <<Zone(GetDomain(Head(services)), GetServiceID(Head(services)))>>
           \o SelectZonesOfAnyType(Tail(services))

\* The loop of ListZones over resp.Answer.Services.
RECURSIVE SelectZones(_)
SelectZones(services) ==
    IF services = <<>> THEN <<>>
    ELSE (IF GetServiceType(Head(services)) = "domain"
          THEN <<Zone(GetDomain(Head(services)), GetServiceID(Head(services)))>>
          ELSE <<>>) \o SelectZones(Tail(services))

\* ListZones from the return of apiRequest on.
ListZonesFinish(a) ==
    IF a.err # NoError THEN [zones |-> <<>>, err |-> a.err]
    ELSE IF ~a.body.answer_ok
    THEN [zones |-> <<>>, err |-> WrappedError("failed to parse response")]
    ELSE [zones |-> SelectZones(AnswerServices(a.body)), err |-> NoError]

\* ListZonesByName that returns every zone of ListZones.
ListZonesByNameFinishUnfiltered(name, zl) ==
    IF zl.err # NoError THEN [zones |-> <<>>, err |-> zl.err]
    ELSE [zones |-> zl.zones, err |-> NoError]

\* ListZonesByName from the return of ListZones on.
ListZonesByNameFinish(name, zl) ==
    IF zl.err # NoError THEN [zones |-> <<>>, err |-> zl.err]
    ELSE [zones |-> SelectSeq(zl.zones, LAMBDA zone : zone.Name = name), err |-> NoError]

\* The filters of ListRecords without the filter by type.
PassesFiltersNameOnly(params, record) ==
    ~(params.Name # "" /\ record.Name # params.Name)

\* The filters of ListRecords: FALSE where the loop says `continue`.
PassesFilters(params, record) ==
    /\ ~(params.Name # "" /\ record.Name # params.Name)
    /\ ~(params.Type # "" /\ record.Type # params.Type)

\* ListRecords that gives each record a default TTL.
RECURSIVE FilterRRListDefaultTTL(_, _)
FilterRRListDefaultTTL(rrList, params) ==
    IF rrList = <<>> THEN <<>>
    ELSE LET rr == Head(rrList)
             record == [Name |-> rr.Subname, Type |-> rr.Rectype, Content |-> rr.Content,
                        TTL |-> 3600, ID |-> ""]
         IN (IF PassesFilters(params, record) THEN <<record>> ELSE <<>>)
              \o FilterRRListDefaultTTL(Tail(rrList), params)

\* The inner loop of ListRecords over domain.RRList.
RECURSIVE FilterRRList(_, _)
FilterRRList(rrList, params) ==
    IF rrList = <<>> THEN <<>>
    ELSE LET rr == Head(rrList)
             record == [Name |-> rr.Subname, Type |-> rr.Rectype, Content |-> rr.Content,
                        TTL |-> 0, ID |-> ""]
         IN (IF PassesFilters(params, record) THEN <<record>> ELSE <<>>)
              \o FilterRRList(Tail(rrList), params)

\* The outer loop of ListRecords over resp.Answer.Domains.
RECURSIVE CollectRecords(_, _, _)
CollectRecords(domains, zoneName, params) ==
    IF domains = <<>> THEN <<>>
    ELSE (IF Head(domains).DName = zoneName
          THEN FilterRRList(Head(domains).RRList, params) ELSE <<>>)
           \o CollectRecords(Tail(domains), zoneName, params)

\* ListRecords from the return of apiRequest on.
ListRecordsFinish(params, a) ==
    IF a.err # NoError THEN [records |-> <<>>, err |-> a.err]
    ELSE IF ~a.body.answer_ok
    THEN [records |-> <<>>, err |-> WrappedError("failed to parse response")]
    ELSE [records |-> CollectRecords(AnswerDomains(a.body), ListRecordsZoneName(params),
                                     params),
          err |-> NoError]

\* GetRRByName that returns the last record of the name.
GetRRByNameFinishLast(name, l) ==
    IF l.err # NoError THEN [rec |-> ZeroRecord, err |-> l.err]
    ELSE LET found == {i \in DOMAIN l.records : l.records[i].Name = name} IN
         IF found = {} THEN [rec |-> ZeroRecord, err |-> RecordNotFoundError(name)]
         ELSE [rec |-> l.records[CHOOSE i \in found : \A j \in found : j <= i],
               err |-> NoError]

\* GetRRByName from the return of ListRecords on.
GetRRByNameFinish(name, l) ==
    IF l.err # NoError THEN [rec |-> ZeroRecord, err |-> l.err]
    ELSE LET found == {i \in DOMAIN l.records : l.records[i].Name = name} IN
         IF found = {} THEN [rec |-> ZeroRecord, err |-> RecordNotFoundError(name)]
         ELSE [rec |-> l.records[CHOOSE i \in found : \A j \in found : i <= j],
               err |-> NoError]

\* ListRecordsByZoneID from the return of ListZones up to the call of
\* ListRecords: the params to list with, or the error to return.
ListRecordsByZoneIDResolve(id, params, zl) ==
    IF zl.err # NoError THEN [send |-> FALSE, params |-> params, err |-> zl.err]
    ELSE LET found == {i \in DOMAIN zl.zones : zl.zones[i].ID = id}
             zoneName == IF found = {} THEN ""
                         ELSE zl.zones[CHOOSE i \in found : \A j \in found : i <= j].Name
         IN IF zoneName = ""
            THEN [send |-> FALSE, params |-> params, err |-> ZoneNotFoundError(id)]
            ELSE [send |-> TRUE, params |-> [params EXCEPT !.ZoneName = zoneName],
                  err |-> NoError]

(***************************************************************************)
(* The remote service: one zone, a set of records addressed by name,       *)
(* type and content.  A request is either served (the zone changes and     *)
(* the answer is 200 with result "success") or refused (the zone is left   *)
(* alone and the answer is one of RefusedResponses).                       *)
(***************************************************************************)
RemoteRecord(name, type, content) == [Name |-> name, Type |-> type, Content |-> content]

\* The record type each add endpoint creates and the field it reads the
\* record's value from.
AddEndpoints ==
    [p \in {"zone/add_alias", "zone/add_aaaa", "zone/add_cname",
            "zone/add_mx", "zone/add_ns", "zone/add_txt"} |->
       CASE p = "zone/add_alias" -> [type |-> "A", field |-> "ipaddr"]
         [] p = "zone/add_aaaa" -> [type |-> "AAAA", field |-> "ipaddr"]
         [] p = "zone/add_cname" -> [type |-> "CNAME", field |-> "canonical_name"]
         [] p = "zone/add_mx" -> [type |-> "MX", field |-> "mail_server"]
         [] p = "zone/add_ns" -> [type |-> "NS", field |-> "dns_server"]
         [] p = "zone/add_txt" -> [type |-> "TXT", field |-> "text"]]

\* The id the remote service assigns to a created record.
RemoteDNSID == "12345"

\* The zone after the remote service served the request; Unserved when the
\* request is none the service can serve.
Unserved == {[Name |-> "<unserved>", Type |-> "", Content |-> ""]}

RemoteServe(req, zone) ==
    LET d == req.input_data IN
    IF req.path \in DOMAIN AddEndpoints
    THEN LET e == AddEndpoints[req.path] IN
         IF {"domains", "subdomain", e.field} \subseteq DOMAIN d
         THEN zone \cup {RemoteRecord(d.subdomain, e.type, d[e.field])}
         ELSE Unserved
    ELSE IF req.path = "zone/remove_record"
    THEN IF {"domains", "subdomain", "content", "record_type"} \subseteq DOMAIN d
         THEN zone \ {RemoteRecord(d.subdomain, d.record_type, d.content)}
         ELSE Unserved
    ELSE IF req.path = "service/get_list" THEN zone
    ELSE IF req.path = "zone/get_resource_records" /\ "domains" \in DOMAIN d THEN zone
    ELSE Unserved

\* The bodies the remote service answers a served request with.  Only
\* zone/add_ns is also answered with another domain reported first.
RemoteAnswers(req, dname) ==
    IF req.path = "service/get_list" THEN {ServiceListBody(l) : l \in ServiceLists}
    ELSE IF req.path = "zone/get_resource_records"
    THEN {RecordsBody(l) : l \in DomainLists(dname)}
    ELSE IF req.path \in DOMAIN AddEndpoints
    THEN {SuccessBody(dname, RemoteDNSID)} \cup
         (IF req.path = "zone/add_ns" THEN {OtherDomainFirstBody(dname, RemoteDNSID)}
          ELSE {})
    ELSE {SuccessBody(dname, "")}

\* The answers of a service that refuses a request, or that cannot be
\* reached.
RefusedResponses(dname) ==
    {NoResponse,
     Response(FALSE, 500, PlainBody, FALSE),
     Response(FALSE, 404, ErrorTextBody, FALSE),
     Response(FALSE, 200, ErrorTextBody, FALSE),
     Response(FALSE, 200, SuccessBody(dname, ""), TRUE),
     Response(FALSE, 200, PlainBody, FALSE),
     Response(FALSE, 200, BadAnswerBody, FALSE),
     Response(FALSE, 200, DomainErrorBody(dname), FALSE),
     Response(FALSE, 200, NoDomainsBody, FALSE)}

\* The outcomes of one request: the zone afterwards, the response in
\* flight, and whether the request was served.
RemoteResults(req, zone) ==
    LET dname == IF "domains" \in DOMAIN req.input_data /\ Len(req.input_data.domains) > 0
                 THEN req.input_data.domains[1].dname ELSE ""
        served == RemoteServe(req, zone)
    IN {[zone |-> zone, resp |-> r, served |-> FALSE] : r \in RefusedResponses(dname)}
       \cup (IF served = Unserved THEN {}
             ELSE {[zone |-> served, resp |-> Response(FALSE, 200, b, FALSE),
                    served |-> TRUE] : b \in RemoteAnswers(req, dname)})

\* The responses of a test server that answers whatever it was set up with.
TestBodies ==
    {SuccessBody("example.com", "12345"), ErrorTextBody, PlainBody, BadEnvelopeBody,
     BadAnswerBody, NoDomainsBody}

TestResponses ==
    {NoResponse} \cup
    {Response(FALSE, s, b, re) : s \in StatusInputs, b \in TestBodies, re \in BOOLEAN}

(***************************************************************************)
(* State.                                                                  *)
(***************************************************************************)
VARIABLES
    client,     \* the Client: username, password, baseURL
    zoneRRs,    \* the records of the remote zone
    pc,         \* where each caller's operation stands
    op,         \* the operation each caller runs
    args,       \* its arguments: zone and record (or params)
    calls,      \* the HTTP requests the operation has issued, in order
    resp,       \* the response in flight to the caller
    ret,        \* what the operation returned
    pre,        \* the remote zone when the operation was called
    nops,       \* operations the caller has started
    raced,      \* two callers' deletes of UpdateRR have been in flight together
    cancelledAt \* where each caller's call stood when its context was cancelled

vars == <<client, zoneRRs, pc, op, args, calls, resp, ret, pre, nops, raced, cancelledAt>>

NoArgs == [zone |-> "", rr |-> ZeroRecord]
NoRet ==
    [path |-> "", req |-> NilRequest, body |-> NilBody, rec |-> ZeroRecord, err |-> NoError,
     id |-> "", zones |-> <<>>, records |-> <<>>]

\* NewClient(username, password, WithBaseURL(server.URL))
NewClient(username, password) ==
    [username |-> username, password |-> password, baseURL |-> "http://test-server"]

\* The records a zone may hold before the callers start.
SeedRecords == {RemoteRecord("www", "A", c) : c \in ContentInputs}

Init ==
    /\ client = NewClient(Username, Password)
    /\ zoneRRs \in SUBSET SeedRecords
    /\ pc = [c \in Callers |-> "idle"]
    /\ op = [c \in Callers |-> ""]
    /\ args = [c \in Callers |-> NoArgs]
    /\ calls = [c \in Callers |-> <<>>]
    /\ resp = [c \in Callers |-> NoResponse]
    /\ ret = [c \in Callers |-> NoRet]
    /\ pre = [c \in Callers |-> {}]
    /\ nops = [c \in Callers |-> 0]
    /\ raced = FALSE
    /\ cancelledAt = [c \in Callers |-> ""]

(***************************************************************************)
(* Steps shared by the operations.                                         *)
(***************************************************************************)
\* A caller calls an operation.
Enter(c, o, zone, rr) ==
    /\ pc[c] = "idle"
    /\ nops[c] < MaxOps
    /\ op' = [op EXCEPT ![c] = o]
    /\ args' = [args EXCEPT ![c] = [zone |-> zone, rr |-> rr]]
    /\ pre' = [pre EXCEPT ![c] = zoneRRs]
    /\ nops' = [nops EXCEPT ![c] = @ + 1]

\* The operation returns r.
Finish(c, r) ==
    /\ pc' = [pc EXCEPT ![c] = "done"]
    /\ ret' = [ret EXCEPT ![c] = r]
    /\ UNCHANGED <<raced, cancelledAt>>

\* c.httpClient.Do(httpReq): the request goes out, the remote service
\* handles it, and the caller waits at `next` for the response.
Do(c, path, apiReq, next) ==
    LET req == NewRequest(client, path, apiReq) IN
    \E out \in RemoteResults(req, zoneRRs) :
        /\ calls' = [calls EXCEPT ![c] = Append(@, [path |-> req.path,
                                                     payload |-> req.input_data,
                                                     served |-> out.served])]
        /\ resp' = [resp EXCEPT ![c] = out.resp]
        /\ zoneRRs' = out.zone
        /\ pc' = [pc EXCEPT ![c] = next]
        /\ raced' = (raced \/ (next = "UpdateRR_delete_wait" /\
                                \E d \in Callers \ {c} : pc[d] = "UpdateRR_delete_wait"))
        /\ UNCHANGED cancelledAt

(***************************************************************************)
(* The helpers, called on their own.                                       *)
(***************************************************************************)
CallGetAddRecordPath(c, recordType) ==
    /\ Enter(c, "getAddRecordPath", "", [ZeroRecord EXCEPT !.Type = recordType])
    /\ LET r == getAddRecordPath(recordType) IN
       Finish(c, [NoRet EXCEPT !.path = r.path, !.err = r.err])
    /\ UNCHANGED <<client, zoneRRs, calls, resp>>

CallGetRemoveRecordPath(c, recordType) ==
    /\ Enter(c, "getRemoveRecordPath", "", [ZeroRecord EXCEPT !.Type = recordType])
    /\ LET r == getRemoveRecordPath(recordType) IN
       Finish(c, [NoRet EXCEPT !.path = r.path, !.err = r.err])
    /\ UNCHANGED <<client, zoneRRs, calls, resp>>

CallCreateAddRecordRequest(c, zone, params) ==
    /\ Enter(c, "createAddRecordRequest", zone, params)
    /\ LET r == createAddRecordRequest(zone, params) IN
       Finish(c, [NoRet EXCEPT !.req = r.req, !.err = r.err])
    /\ UNCHANGED <<client, zoneRRs, calls, resp>>

CallCreateRemoveRecordRequest(c, zone, rr) ==
    /\ Enter(c, "createRemoveRecordRequest", zone, rr)
    /\ LET r == createRemoveRecordRequest(zone, rr) IN
       Finish(c, [NoRet EXCEPT !.req = r.req, !.err = r.err])
    /\ UNCHANGED <<client, zoneRRs, calls, resp>>

(***************************************************************************)
(* apiRequest, called on its own against a test server.                    *)
(***************************************************************************)
CallApiRequest(c, r) ==
    /\ Enter(c, "apiRequest", "", ZeroRecord)
    /\ LET req == NewRequest(client, "service/get_list", ServiceListRequest) IN
       calls' = [calls EXCEPT ![c] = Append(@, [path |-> req.path,
                                                 payload |-> req.input_data,
                                                 served |-> FALSE])]
    /\ resp' = [resp EXCEPT ![c] = r]
    /\ pc' = [pc EXCEPT ![c] = "apiRequest_wait"]
    /\ UNCHANGED <<client, zoneRRs, ret, raced, cancelledAt>>

RecvApiRequest(c) ==
    /\ pc[c] = "apiRequest_wait"
    /\ LET a == apiRequest(resp[c]) IN
       Finish(c, [NoRet EXCEPT !.body = a.body, !.err = a.err])
    /\ UNCHANGED <<client, zoneRRs, op, args, calls, resp, pre, nops>>

(***************************************************************************)
(* AddRR.                                                                  *)
(***************************************************************************)
\* AddRR up to the call of apiRequest: the path and the request to send,
\* or the error to return.
AddRRStart(zone, params) ==
    LET p == getAddRecordPath(params.Type)
        r == createAddRecordRequest(zone, params)
    IN IF p.err # NoError THEN [send |-> FALSE, path |-> "", req |-> NilRequest, err |-> p.err]
       ELSE IF r.err # NoError
       THEN [send |-> FALSE, path |-> "", req |-> NilRequest, err |-> r.err]
       ELSE [send |-> TRUE, path |-> p.path, req |-> r.req, err |-> NoError]

\* AddRR that returns an error unless the first domain reports success.
AddRRFinishChecksResult(params, a) ==
    IF a.err # NoError THEN [rec |-> ZeroRecord, err |-> a.err]
    ELSE IF ~a.body.answer_ok
    THEN [rec |-> ZeroRecord, err |-> WrappedError("failed to parse response")]
    ELSE IF Len(a.body.domains) > 0 /\ a.body.domains[1].Result = "success"
    THEN [rec |-> [Name |-> params.Name, Type |-> params.Type,
                   Content |-> params.Content, TTL |-> params.TTL,
                   ID |-> a.body.domains[1].DNSID],
          err |-> NoError]
    ELSE [rec |-> ZeroRecord, err |-> APIError("record not created")]

\* AddRR from the return of apiRequest on.
AddRRFinish(params, a) ==
    IF a.err # NoError THEN [rec |-> ZeroRecord, err |-> a.err]
    ELSE IF ~a.body.answer_ok
    THEN [rec |-> ZeroRecord, err |-> WrappedError("failed to parse response")]
    ELSE [rec |-> [Name |-> params.Name, Type |-> params.Type,
                   Content |-> params.Content, TTL |-> params.TTL,
                   ID |-> IF Len(a.body.domains) > 0 /\ a.body.domains[1].Result = "success"
                          THEN a.body.domains[1].DNSID ELSE ""],
          err |-> NoError]

CallAddRR(c, zone, params) ==
    /\ Enter(c, "AddRR", zone, params)
    /\ LET s == AddRRStart(zone, params) IN
       IF s.send
       THEN Do(c, s.path, s.req, "AddRR_wait") /\ UNCHANGED ret
       ELSE Finish(c, [NoRet EXCEPT !.err = s.err]) /\ UNCHANGED <<zoneRRs, calls, resp>>
    /\ UNCHANGED client

RecvAddRR(c) ==
    /\ pc[c] = "AddRR_wait"
    /\ LET r == AddRRFinish(args[c].rr, apiRequest(resp[c])) IN
       Finish(c, [NoRet EXCEPT !.rec = r.rec, !.err = r.err])
    /\ UNCHANGED <<client, zoneRRs, op, args, calls, resp, pre, nops>>

(***************************************************************************)
(* DeleteRR.                                                               *)
(***************************************************************************)
\* DeleteRR that sends the removal without validating the record type.
DeleteRRStartUnchecked(zone, rr) ==
    [send |-> TRUE, path |-> "zone/remove_record",
     req |-> [shape |-> "RemoveRecordRequest", BaseRequest |-> BaseRequest,
              Domains |-> <<[DName |-> zone]>>, Subdomain |-> rr.Name,
              Content |-> rr.Content, RecordType |-> rr.Type],
     err |-> NoError]

\* DeleteRR up to the call of apiRequest.
DeleteRRStart(zone, rr) ==
    LET p == getRemoveRecordPath(rr.Type)
        r == createRemoveRecordRequest(zone, rr)
    IN IF p.err # NoError THEN [send |-> FALSE, path |-> "", req |-> NilRequest, err |-> p.err]
       ELSE IF r.err # NoError
       THEN [send |-> FALSE, path |-> "", req |-> NilRequest, err |-> r.err]
       ELSE [send |-> TRUE, path |-> p.path, req |-> r.req, err |-> NoError]

\* DeleteRR from the return of apiRequest on: the body is discarded.
\* DeleteRR that answers every failure of apiRequest with nil.
DeleteRRFinishSwallow(a) == NoError

DeleteRRFinish(a) == a.err

CallDeleteRR(c, zone, rr) ==
    /\ Enter(c, "DeleteRR", zone, rr)
    /\ LET s == DeleteRRStart(zone, rr) IN
       IF s.send
       THEN Do(c, s.path, s.req, "DeleteRR_wait") /\ UNCHANGED ret
       ELSE Finish(c, [NoRet EXCEPT !.err = s.err]) /\ UNCHANGED <<zoneRRs, calls, resp>>
    /\ UNCHANGED client

RecvDeleteRR(c) ==
    /\ pc[c] = "DeleteRR_wait"
    /\ Finish(c, [NoRet EXCEPT !.err = DeleteRRFinish(apiRequest(resp[c]))])
    /\ UNCHANGED <<client, zoneRRs, op, args, calls, resp, pre, nops>>

(***************************************************************************)
(* UpdateRR: DeleteRR, then AddRR.                                         *)
(***************************************************************************)
\* The create parameters without the record's TTL.
UpdateRRCreateParamsNoTTL(rr) == DNSRecord(rr.Name, rr.Type, rr.Content, 0)

\* CreateDNSRecordParams{Name: rr.Name, Type: rr.Type, Content: rr.Content, TTL: rr.TTL}
UpdateRRCreateParams(rr) == DNSRecord(rr.Name, rr.Type, rr.Content, rr.TTL)

\* UpdateRR that answers a failed create with the record and no error.
UpdateRRFinishSwallow(rr, r) ==
    IF r.err # NoError THEN [rec |-> rr, err |-> NoError] ELSE r

\* return c.AddRR(ctx, zone, createParams): r is what AddRR returned.
UpdateRRFinish(rr, r) == r

\* UpdateRR behind a lock held from the delete to the return: a caller
\* enters only while no other caller is inside UpdateRR.
CallUpdateRRSerialized(c, zone, rr) ==
    /\ \A d \in Callers \ {c} : ~(op[d] = "UpdateRR" /\ pc[d] # "idle")
    /\ Enter(c, "UpdateRR", zone, rr)
    /\ LET s == DeleteRRStart(zone, rr) IN
       IF s.send
       THEN Do(c, s.path, s.req, "UpdateRR_delete_wait") /\ UNCHANGED ret
       ELSE Finish(c, [NoRet EXCEPT !.err = s.err]) /\ UNCHANGED <<zoneRRs, calls, resp>>
    /\ UNCHANGED client

\* UpdateRR up to the first round trip: DeleteRR is called.
CallUpdateRR(c, zone, rr) ==
    /\ Enter(c, "UpdateRR", zone, rr)
    /\ LET s == DeleteRRStart(zone, rr) IN
       IF s.send
       THEN Do(c, s.path, s.req, "UpdateRR_delete_wait") /\ UNCHANGED ret
       ELSE Finish(c, [NoRet EXCEPT !.err = s.err]) /\ UNCHANGED <<zoneRRs, calls, resp>>
    /\ UNCHANGED client

\* DeleteRR returns inside UpdateRR: its error is returned, or AddRR is
\* called with the create parameters.
RecvUpdateDelete(c) ==
    /\ pc[c] = "UpdateRR_delete_wait"
    /\ LET err == DeleteRRFinish(apiRequest(resp[c]))
           s == AddRRStart(args[c].zone, UpdateRRCreateParams(args[c].rr))
       IN IF err # NoError
          THEN Finish(c, [NoRet EXCEPT !.err = err]) /\ UNCHANGED <<zoneRRs, calls, resp>>
          ELSE IF s.send
          THEN Do(c, s.path, s.req, "UpdateRR_add_wait") /\ UNCHANGED ret
          ELSE Finish(c, [NoRet EXCEPT !.err = s.err]) /\ UNCHANGED <<zoneRRs, calls, resp>>
    /\ UNCHANGED <<client, op, args, pre, nops>>

\* AddRR inside UpdateRR on a Client that keeps the last response in a field
\* of its own: the caller picks up the response of another call in flight.
RecvUpdateAddSharedResponse(c) ==
    /\ pc[c] = "UpdateRR_add_wait"
    /\ LET last == IF \E d \in Callers \ {c} : pc[d] = "UpdateRR_add_wait"
                   THEN resp[CHOOSE d \in Callers \ {c} : pc[d] = "UpdateRR_add_wait"]
                   ELSE resp[c]
           r == UpdateRRFinish(args[c].rr,
                               AddRRFinish(UpdateRRCreateParams(args[c].rr),
                                           apiRequest(last)))
       IN Finish(c, [NoRet EXCEPT !.rec = r.rec, !.err = r.err])
    /\ UNCHANGED <<client, zoneRRs, op, args, calls, resp, pre, nops>>

\* AddRR returns inside UpdateRR.
RecvUpdateAdd(c) ==
    /\ pc[c] = "UpdateRR_add_wait"
    /\ LET r == UpdateRRFinish(args[c].rr,
                               AddRRFinish(UpdateRRCreateParams(args[c].rr),
                                           apiRequest(resp[c])))
       IN Finish(c, [NoRet EXCEPT !.rec = r.rec, !.err = r.err])
    /\ UNCHANGED <<client, zoneRRs, op, args, calls, resp, pre, nops>>

(***************************************************************************)
(* The listing operations.                                                 *)
(***************************************************************************)
\* The ids GetServiceID is called with on its own, and the ids and
\* params the listing operations are called with.
ServiceIDInputs ==
    {GoNil, GoString("12345"), GoString("abc-7"), GoString(""), GoInt(12345), GoInt(0),
     GoInt(-7), GoFloat64(12345, FALSE, 0), GoFloat64(0, FALSE, 0),
     GoFloat64(12345, TRUE, 0), GoFloat64(1, FALSE, 21)}
ZoneIDInputs == {"12345", "nonexistent", "<nil>"}
ZoneNameInputs == {"example.com", "nonexistent.org"}
RecordNameInputs == {"www", "ftp"}
ListParamsInputs ==
    {ListDNSRecordsParams("example.com", "", n, t) : n \in {"", "www"}, t \in {"", "A"}}
      \cup {ListDNSRecordsParams("", "example.com", "", "MX"),
            ListDNSRecordsParams("example.com", "ignored", "ftp", "")}
ByZoneIDParamsInputs ==
    {ListDNSRecordsParams("", "", "", ""),
     ListDNSRecordsParams("supplied.net", "", "www", "A")}

CallGetServiceID(c, v) ==
    /\ Enter(c, "GetServiceID", "", [ServiceID |-> v])
    /\ Finish(c, [NoRet EXCEPT !.id = GetServiceID([ServiceID |-> v])])
    /\ UNCHANGED <<client, zoneRRs, calls, resp>>

CallListZones(c) ==
    /\ Enter(c, "ListZones", "", ZeroRecord)
    /\ Do(c, "service/get_list", ServiceListRequest, "ListZones_wait")
    /\ UNCHANGED <<client, ret>>

RecvListZones(c) ==
    /\ pc[c] = "ListZones_wait"
    /\ LET r == ListZonesFinish(apiRequest(resp[c])) IN
       Finish(c, [NoRet EXCEPT !.zones = r.zones, !.err = r.err])
    /\ UNCHANGED <<client, zoneRRs, op, args, calls, resp, pre, nops>>

CallListZonesByName(c, name) ==
    /\ Enter(c, "ListZonesByName", name, ZeroRecord)
    /\ Do(c, "service/get_list", ServiceListRequest, "ListZonesByName_wait")
    /\ UNCHANGED <<client, ret>>

RecvListZonesByName(c) ==
    /\ pc[c] = "ListZonesByName_wait"
    /\ LET r == ListZonesByNameFinish(args[c].zone, ListZonesFinish(apiRequest(resp[c]))) IN
       Finish(c, [NoRet EXCEPT !.zones = r.zones, !.err = r.err])
    /\ UNCHANGED <<client, zoneRRs, op, args, calls, resp, pre, nops>>

CallListRecords(c, params) ==
    /\ Enter(c, "ListRecords", ListRecordsZoneName(params), params)
    /\ Do(c, "zone/get_resource_records",
          ZoneGetResourceRecordsRequest(ListRecordsZoneName(params)), "ListRecords_wait")
    /\ UNCHANGED <<client, ret>>

RecvListRecords(c) ==
    /\ pc[c] = "ListRecords_wait"
    /\ LET r == ListRecordsFinish(args[c].rr, apiRequest(resp[c])) IN
       Finish(c, [NoRet EXCEPT !.records = r.records, !.err = r.err])
    /\ UNCHANGED <<client, zoneRRs, op, args, calls, resp, pre, nops>>

\* GetRRByName lists the zone with params {ZoneName: zone}.
CallGetRRByName(c, zone, name) ==
    /\ Enter(c, "GetRRByName", zone, [ZeroRecord EXCEPT !.Name = name])
    /\ Do(c, "zone/get_resource_records",
          ZoneGetResourceRecordsRequest(
              ListRecordsZoneName(ListDNSRecordsParams(zone, "", "", ""))),
          "GetRRByName_wait")
    /\ UNCHANGED <<client, ret>>

RecvGetRRByName(c) ==
    /\ pc[c] = "GetRRByName_wait"
    /\ LET l == ListRecordsFinish(ListDNSRecordsParams(args[c].zone, "", "", ""),
                                  apiRequest(resp[c]))
           r == GetRRByNameFinish(args[c].rr.Name, l)
       IN Finish(c, [NoRet EXCEPT !.rec = r.rec, !.err = r.err])
    /\ UNCHANGED <<client, zoneRRs, op, args, calls, resp, pre, nops>>

\* ListRecordsByZoneID lists the zones first; ret keeps the zones listed
\* while the records request is in flight.
CallListRecordsByZoneID(c, id, params) ==
    /\ Enter(c, "ListRecordsByZoneID", id, params)
    /\ Do(c, "service/get_list", ServiceListRequest, "ListRecordsByZoneID_zones_wait")
    /\ UNCHANGED <<client, ret>>

RecvListRecordsByZoneIDZones(c) ==
    /\ pc[c] = "ListRecordsByZoneID_zones_wait"
    /\ LET zl == ListZonesFinish(apiRequest(resp[c]))
           s == ListRecordsByZoneIDResolve(args[c].zone, args[c].rr, zl)
       IN IF s.send
          THEN /\ Do(c, "zone/get_resource_records",
                     ZoneGetResourceRecordsRequest(ListRecordsZoneName(s.params)),
                     "ListRecordsByZoneID_records_wait")
               /\ ret' = [ret EXCEPT ![c].zones = zl.zones]
          ELSE Finish(c, [NoRet EXCEPT !.err = s.err]) /\ UNCHANGED <<zoneRRs, calls, resp>>
    /\ UNCHANGED <<client, op, args, pre, nops>>

RecvListRecordsByZoneIDRecords(c) ==
    /\ pc[c] = "ListRecordsByZoneID_records_wait"
    /\ LET s == ListRecordsByZoneIDResolve(args[c].zone, args[c].rr,
                                           [zones |-> ret[c].zones, err |-> NoError])
           r == ListRecordsFinish(s.params, apiRequest(resp[c]))
       IN Finish(c, [NoRet EXCEPT !.zones = ret[c].zones, !.records = r.records,
                                  !.err = r.err])
    /\ UNCHANGED <<client, zoneRRs, op, args, calls, resp, pre, nops>>

(***************************************************************************)
(* The caller takes the result and is free to call the next operation.     *)
(***************************************************************************)
Return(c) ==
    /\ pc[c] = "done"
    /\ pc' = [pc EXCEPT ![c] = "idle"]
    /\ op' = [op EXCEPT ![c] = ""]
    /\ args' = [args EXCEPT ![c] = NoArgs]
    /\ calls' = [calls EXCEPT ![c] = <<>>]
    /\ resp' = [resp EXCEPT ![c] = NoResponse]
    /\ ret' = [ret EXCEPT ![c] = NoRet]
    /\ pre' = [pre EXCEPT ![c] = {}]
    /\ cancelledAt' = [cancelledAt EXCEPT ![c] = ""]
    /\ UNCHANGED <<client, zoneRRs, nops, raced>>

\* The places where an operation waits in http.Client.Do.
InFlight ==
    {"apiRequest_wait", "AddRR_wait", "DeleteRR_wait", "UpdateRR_delete_wait",
     "UpdateRR_add_wait", "ListZones_wait", "ListZonesByName_wait", "ListRecords_wait",
     "GetRRByName_wait", "ListRecordsByZoneID_zones_wait", "ListRecordsByZoneID_records_wait"}

\* The caller cancels the context of its operation while the HTTP call is
\* in flight: Do returns the context's error in place of the response.
\* What the remote service has done by then stays done.
Cancel(c) ==
    /\ pc[c] \in InFlight
    /\ cancelledAt[c] = ""
    /\ resp' = [resp EXCEPT ![c] = CanceledResponse]
    /\ cancelledAt' = [cancelledAt EXCEPT ![c] = pc[c]]
    /\ UNCHANGED <<client, zoneRRs, pc, op, args, calls, ret, pre, nops, raced>>

(***************************************************************************)
(* Spec: one caller runs any of the operations, one after the other.       *)
(***************************************************************************)
MainCallers == {1}

Next ==
    \E c \in MainCallers :
        \/ \E t \in TypeInputs : CallGetAddRecordPath(c, t)
        \/ \E t \in TypeInputs : CallGetRemoveRecordPath(c, t)
        \/ \E z \in ZoneInputs, p \in CreateParamsInputs : CallCreateAddRecordRequest(c, z, p)
        \/ \E z \in ZoneInputs, rr \in RecordInputs : CallCreateRemoveRecordRequest(c, z, rr)
        \/ \E r \in TestResponses : CallApiRequest(c, r)
        \/ RecvApiRequest(c)
        \/ \E z \in ZoneInputs, rr \in RecordInputs : CallAddRR(c, z, rr)
        \/ RecvAddRR(c)
        \/ \E z \in ZoneInputs, rr \in RecordInputs : CallDeleteRR(c, z, rr)
        \/ RecvDeleteRR(c)
        \/ \E z \in ZoneInputs, rr \in RecordInputs : CallUpdateRR(c, z, rr)
        \/ RecvUpdateDelete(c)
        \/ RecvUpdateAdd(c)
        \/ \E v \in ServiceIDInputs : CallGetServiceID(c, v)
        \/ CallListZones(c)
        \/ RecvListZones(c)
        \/ \E n \in ZoneNameInputs : CallListZonesByName(c, n)
        \/ RecvListZonesByName(c)
        \/ \E p \in ListParamsInputs : CallListRecords(c, p)
        \/ RecvListRecords(c)
        \/ \E z \in ZoneInputs, n \in RecordNameInputs : CallGetRRByName(c, z, n)
        \/ RecvGetRRByName(c)
        \/ \E id \in ZoneIDInputs, p \in ByZoneIDParamsInputs :
              CallListRecordsByZoneID(c, id, p)
        \/ RecvListRecordsByZoneIDZones(c)
        \/ RecvListRecordsByZoneIDRecords(c)
        \/ Cancel(c)
        \/ Return(c)

Spec == Init /\ [][Next]_vars

(***************************************************************************)
(* SpecConc: two callers run UpdateRR on one Client, on the records of     *)
(* ConcRecords, with their round trips interleaved.                        *)
(***************************************************************************)
ConcRecords == {DNSRecord("www", "A", c, 3600) : c \in ContentInputs}

NextConc ==
    \E c \in Callers :
        \/ \E z \in ZoneInputs, rr \in ConcRecords : CallUpdateRR(c, z, rr)
        \/ RecvUpdateDelete(c)
        \/ RecvUpdateAdd(c)
        \/ Return(c)

SpecConc == Init /\ [][NextConc]_vars

(***************************************************************************)
(* Properties.                                                             *)
(***************************************************************************)
\* The endpoint documented for each record type (TestGetAddRecordPath).
DocumentedAddPath ==
    [t \in RecordTypes |->
       CASE t = "A" -> "zone/add_alias"
         [] t = "AAAA" -> "zone/add_aaaa"
         [] t = "CNAME" -> "zone/add_cname"
         [] t = "MX" -> "zone/add_mx"
         [] t = "NS" -> "zone/add_ns"
         [] t = "TXT" -> "zone/add_txt"]

Is2xx(status) == status >= 200 /\ status <= 299

\* C1: for every supported record type getAddRecordPath returns the
\* endpoint documented for that type, with no error, and the endpoint of
\* no other type; for every other string it returns the empty path and an
\* UnsupportedRecordTypeError naming the string.
C1_AddPathOfType ==
    \A c \in Callers :
        (op[c] = "getAddRecordPath" /\ pc[c] = "done") =>
            LET t == args[c].rr.Type IN
            IF t \in RecordTypes
            THEN /\ ret[c].path = DocumentedAddPath[t]
                 /\ ret[c].err = NoError
                 /\ \A u \in RecordTypes \ {t} : ret[c].path # DocumentedAddPath[u]
            ELSE /\ ret[c].path = ""
                 /\ ret[c].err = UnsupportedRecordTypeError(t)

\* getAddRecordPath("AAAA") has returned zone/add_aaaa.
C1_Witness ==
    \E c \in Callers :
        /\ op[c] = "getAddRecordPath" /\ pc[c] = "done"
        /\ args[c].rr.Type = "AAAA"
        /\ ret[c].path = "zone/add_aaaa"

\* C2: AddRR, DeleteRR and UpdateRR called with a record type outside the
\* enumeration have returned at once, with an UnsupportedRecordTypeError
\* naming the type and a zero record, having issued no HTTP request and
\* left the remote zone as it was.
C2_UnsupportedTypeNoRequest ==
    \A c \in Callers :
        (/\ op[c] \in {"AddRR", "DeleteRR", "UpdateRR"}
         /\ pc[c] # "idle"
         /\ args[c].rr.Type \notin RecordTypes) =>
            /\ pc[c] = "done"
            /\ ret[c].err = UnsupportedRecordTypeError(args[c].rr.Type)
            /\ ret[c].rec = ZeroRecord
            /\ calls[c] = <<>>
            /\ zoneRRs = pre[c]

\* UpdateRR of a record of type UNSUPPORTED has returned the validation
\* error.
C2_Witness ==
    \E c \in Callers :
        /\ op[c] = "UpdateRR" /\ pc[c] = "done"
        /\ args[c].rr.Type = "UNSUPPORTED"
        /\ ret[c].err.kind = "UnsupportedRecordTypeError"
        /\ calls[c] = <<>>

\* C3: when the response status is outside 200..299, apiRequest returns
\* no body and an HTTPError with that status and the response body, and
\* one HTTP request has been sent.
C3_Non2xxIsHTTPError ==
    \A c \in Callers :
        (/\ op[c] = "apiRequest" /\ pc[c] = "done"
         /\ ~resp[c].doErr
         /\ ~Is2xx(resp[c].status)) =>
            /\ ret[c].body = NilBody
            /\ ret[c].err = HTTPError(resp[c].status, resp[c].body)
            /\ Len(calls[c]) = 1

\* apiRequest has returned the HTTPError of a 500 answer with a plain text
\* body.
C3_Witness ==
    \E c \in Callers :
        /\ op[c] = "apiRequest" /\ pc[c] = "done"
        /\ ~resp[c].doErr /\ resp[c].status = 500 /\ resp[c].body = PlainBody
        /\ ret[c].err.kind = "HTTPError"
        /\ ret[c].err.StatusCode = 500
        /\ ret[c].err.Body = PlainBody

\* C4: when the response passed the status check, its body was read and
\* decodes into an envelope with a non-empty error_text, apiRequest
\* returns no body and an APIError with that text; and whatever the
\* status, a response whose envelope carries an error_text is never
\* returned as a success.
C4_ErrorTextIsAPIError ==
    \A c \in Callers :
        (/\ op[c] = "apiRequest" /\ pc[c] = "done"
         /\ ~resp[c].doErr
         /\ resp[c].body.envelope_ok
         /\ resp[c].body.error_text # "") =>
            /\ ret[c].body = NilBody
            /\ ret[c].err # NoError
            /\ (resp[c].status = StatusOK /\ ~resp[c].readErr) =>
                   ret[c].err = APIError(resp[c].body.error_text)

\* apiRequest has returned the APIError of a 200 answer carrying
\* error_text "Invalid credentials".
C4_Witness ==
    \E c \in Callers :
        /\ op[c] = "apiRequest" /\ pc[c] = "done"
        /\ ~resp[c].doErr /\ resp[c].status = 200 /\ ~resp[c].readErr
        /\ resp[c].body = ErrorTextBody
        /\ ret[c].err.kind = "APIError"
        /\ ret[c].err.Message = "Invalid credentials"

\* C5: apiRequest classifies by status range: an HTTPError is returned if
\* and only if the status is outside 200..299, and for a status in
\* 200..299 whose body was read and carries no error_text the call
\* returns the response body and no error.
C5_ClassifiesBy2xx ==
    \A c \in Callers :
        (/\ op[c] = "apiRequest" /\ pc[c] = "done"
         /\ ~resp[c].doErr) =>
            /\ (ret[c].err.kind = "HTTPError") <=> ~Is2xx(resp[c].status)
            /\ (/\ Is2xx(resp[c].status)
                /\ ~resp[c].readErr
                /\ ~(resp[c].body.envelope_ok /\ resp[c].body.error_text # "")) =>
                   (ret[c].body = resp[c].body /\ ret[c].err = NoError)

\* The record of the remote zone an operation's record argument names.
Target(c) == RemoteRecord(args[c].rr.Name, args[c].rr.Type, args[c].rr.Content)

\* The removal payload of the unified convention for the caller's record.
IsRemovalOf(payload, zone, rr) ==
    /\ {"domains", "subdomain", "content", "record_type"} \subseteq DOMAIN payload
    /\ payload.domains = <<[dname |-> zone]>>
    /\ payload.subdomain = rr.Name
    /\ payload.content = rr.Content
    /\ payload.record_type = rr.Type

\* C6: UpdateRR issues its calls in the order delete, create: never more
\* than two, the first to zone/remove_record, the second to the add
\* endpoint of the record's type; and when both calls succeeded (UpdateRR
\* returned no error) exactly two were issued and the returned record
\* carries the name, type, content and TTL the caller passed.
C6_UpdateDeleteThenCreate ==
    \A c \in Callers :
        (op[c] = "UpdateRR") =>
            /\ Len(calls[c]) <= 2
            /\ Len(calls[c]) >= 1 => calls[c][1].path = "zone/remove_record"
            /\ Len(calls[c]) = 2 => calls[c][2].path = DocumentedAddPath[args[c].rr.Type]
            /\ (pc[c] = "done" /\ ret[c].err = NoError) =>
                   /\ Len(calls[c]) = 2
                   /\ ret[c].rec.Content = args[c].rr.Content
                   /\ ret[c].rec.Name = args[c].rr.Name
                   /\ ret[c].rec.Type = args[c].rr.Type
                   /\ ret[c].rec.TTL = args[c].rr.TTL

\* UpdateRR of an MX record with the new content and TTL 3600 has returned
\* it after a served delete and a served create.
C6_Witness ==
    \E c \in Callers :
        /\ op[c] = "UpdateRR" /\ pc[c] = "done" /\ ret[c].err = NoError
        /\ args[c].rr.Type = "MX" /\ args[c].rr.Content = NewContent /\ args[c].rr.TTL = 3600
        /\ Len(calls[c]) = 2 /\ calls[c][1].served /\ calls[c][2].served
        /\ calls[c][2].path = "zone/add_mx"
        /\ ret[c].rec.Content = NewContent

\* C7: when the zone held a record with rr's name and type and another
\* content as UpdateRR was called, and UpdateRR returned no error after
\* the remote service served both calls, the zone holds the record with
\* the new content and no longer the record with the old content.
C7_UpdateReplacesOldContent ==
    \A c \in Callers :
        (/\ op[c] = "UpdateRR" /\ pc[c] = "done" /\ ret[c].err = NoError
         /\ Len(calls[c]) = 2 /\ calls[c][1].served /\ calls[c][2].served) =>
            \A old \in pre[c] :
                (old.Name = args[c].rr.Name /\ old.Type = args[c].rr.Type
                 /\ old.Content # args[c].rr.Content) =>
                    (Target(c) \in zoneRRs /\ old \notin zoneRRs)

\* A response apiRequest answers with a transport or a business error.
IsFailure(r) ==
    \/ r.doErr
    \/ r.status # StatusOK
    \/ r.readErr
    \/ (r.body.envelope_ok /\ r.body.error_text # "")

\* C8: when UpdateRR's delete was served and its create then failed with
\* a transport or business error (the call was answered so, not cancelled
\* by the caller), UpdateRR has returned that error with a zero record
\* after two calls and no more, the create was not served, and the record
\* is absent from the zone.
C8_UpdateNotAtomic ==
    \A c \in Callers :
        (/\ op[c] = "UpdateRR" /\ pc[c] = "done"
         /\ Len(calls[c]) = 2 /\ calls[c][1].served
         /\ cancelledAt[c] = ""
         /\ IsFailure(resp[c])) =>
            /\ ret[c].rec = ZeroRecord
            /\ ret[c].err.kind \in {"HTTPError", "APIError", "error"}
            /\ (~resp[c].doErr /\ resp[c].status # StatusOK) =>
                   ret[c].err = HTTPError(resp[c].status, resp[c].body)
            /\ (/\ ~resp[c].doErr /\ resp[c].status = StatusOK /\ ~resp[c].readErr
                /\ resp[c].body.envelope_ok /\ resp[c].body.error_text # "") =>
                   ret[c].err = APIError(resp[c].body.error_text)
            /\ ~calls[c][2].served
            /\ Target(c) \notin zoneRRs

\* UpdateRR of a record the zone held has returned the HTTPError of its
\* create after its delete was served: the record is gone.
C8_Witness ==
    \E c \in Callers :
        /\ op[c] = "UpdateRR" /\ pc[c] = "done"
        /\ Target(c) \in pre[c]
        /\ Len(calls[c]) = 2 /\ calls[c][1].served
        /\ ret[c].err.kind = "HTTPError"
        /\ ret[c].rec = ZeroRecord
        /\ Target(c) \notin zoneRRs

\* C9: UpdateRR is not serialized: while one caller is inside UpdateRR,
\* between its delete and its return, another caller that has an
\* operation left can enter UpdateRR and issue its own delete.
C9_UpdatesNotSerialized ==
    \A c \in Callers : \A d \in Callers \ {c} :
        (/\ op[c] = "UpdateRR"
         /\ pc[c] \in {"UpdateRR_delete_wait", "UpdateRR_add_wait"}
         /\ pc[d] = "idle" /\ nops[d] < MaxOps) =>
            \A z \in ZoneInputs, rr \in ConcRecords : ENABLED CallUpdateRR(d, z, rr)

\* Two updates of one record the zone held have raced on the delete and
\* both have ended without a served create: one after its delete alone,
\* the other after a served delete and a failed create; the record is
\* absent from the zone.
C9_Witness ==
    \E c \in Callers : \E d \in Callers \ {c} :
        /\ raced
        /\ op[c] = "UpdateRR" /\ op[d] = "UpdateRR"
        /\ pc[c] = "done" /\ pc[d] = "done"
        /\ args[c] = args[d]
        /\ Target(d) \in pre[d]
        /\ Len(calls[d]) = 2 /\ calls[d][1].served /\ ~calls[d][2].served
        /\ ret[d].err # NoError
        /\ Len(calls[c]) = 1 /\ ret[c].err # NoError
        /\ Target(c) \notin zoneRRs

TTLFieldMatches(payload, ttl) ==
    /\ ("ttl" \in DOMAIN payload) <=> (ttl > 0)
    /\ ("ttl" \in DOMAIN payload) => (payload.ttl = ttl)

C11_TTLOnlyWhenPositive ==
    \A c \in Callers :
        /\ (pc[c] = "done" /\ op[c] = "createAddRecordRequest" /\
            args[c].rr.Type \in RecordTypes)
              => /\ ret[c].err = NoError
                 /\ TTLFieldMatches(Marshal(ret[c].req), args[c].rr.TTL)
        /\ (op[c] = "AddRR" /\ Len(calls[c]) > 0)
              => TTLFieldMatches(calls[c][1].payload, args[c].rr.TTL)

\* createAddRecordRequest has built a request from a negative TTL, and the
\* request serialises without a ttl field.
C11_Witness ==
    \E c \in Callers :
        /\ pc[c] = "done" /\ op[c] = "createAddRecordRequest"
        /\ args[c].rr.Type \in RecordTypes
        /\ args[c].rr.TTL < 0
        /\ ret[c].err = NoError
        /\ "ttl" \notin DOMAIN Marshal(ret[c].req)
        /\ "subdomain" \in DOMAIN Marshal(ret[c].req)

(***************************************************************************)
(* Helpers of the listing properties.                                      *)
(***************************************************************************)
\* The operation of caller c has returned.
Returned(c, o) == pc[c] = "done" /\ op[c] = o

\* The response in flight to c went through apiRequest without an error
\* and decodes into the response structure of its method.
Decoded(c) == apiRequest(resp[c]).err = NoError /\ resp[c].body.answer_ok

\* The service entries of the response in flight to c.
ResponseServices(c) == Field(resp[c].body, "services", <<>>)

\* The place of index i among the indices of S, counted from 1.
Rank(S, i) == 1 + Cardinality({j \in S : j < i})

\* l is, in order, the elements of the sequence src at the indices of S.
IsSubsequenceAt(l, src, S) ==
    /\ Len(l) = Cardinality(S)
    /\ \A i \in S : l[Rank(S, i)] = src[i]

RRPlaces(domains) ==
    {<<i, j>> : i \in DOMAIN domains, j \in 1..3} \cap
    {p \in (DOMAIN domains) \X (1..3) :
        p[2] \in DOMAIN Field(domains[p[1]], "rrs", <<>>)}

PlaceBefore(p, q) == p[1] < q[1] \/ (p[1] = q[1] /\ p[2] < q[2])

C14_NSListRecordsReturned ==
    \A c \in Callers :
        (/\ Returned(c, "ListRecords") /\ Decoded(c)
         /\ args[c].rr.Name = "" /\ args[c].rr.Type = ""
         /\ Len(resp[c].body.domains) = 1
         /\ "ns_list" \in DOMAIN resp[c].body.domains[1]
         /\ resp[c].body.domains[1].dname = calls[c][1].payload.domains[1].dname) =>
            LET ns == resp[c].body.domains[1].ns_list IN
            /\ ret[c].err = NoError
            /\ Len(ret[c].records) = Len(ns)
            /\ \A i \in DOMAIN ns : /\ ret[c].records[i].Name = ns[i].subdomain
                                     /\ ret[c].records[i].Type = ns[i].type

(***************************************************************************)
(* C15: ListZones returns, in listing order, one Zone for each service     *)
(* entry whose canonical service type is "domain" and none for any other   *)
(* entry; each Zone has Name = canonical domain and ID = canonical id.     *)
(***************************************************************************)
C15_ListZonesDomainEntries ==
    \A c \in Callers :
        (Returned(c, "ListZones") /\ Decoded(c)) =>
            LET services == AnswerServices(resp[c].body)
                domain == {i \in DOMAIN services : GetServiceType(services[i]) = "domain"}
                zoneOf == [i \in DOMAIN services |->
                             [ID |-> GetServiceID(services[i]),
                              Name |-> GetDomain(services[i])]]
            IN /\ ret[c].err = NoError
               /\ IsSubsequenceAt(ret[c].zones, zoneOf, domain)

\* ListZones has returned the two zones of a listing of two domains and
\* a hosting service.
C15_Witness ==
    \E c \in Callers :
        /\ Returned(c, "ListZones")
        /\ Decoded(c)
        /\ ResponseServices(c) = TestServices
        /\ ret[c].err = NoError
        /\ ret[c].zones = <<[ID |-> "12345", Name |-> "example.com"],
                            [ID |-> "67890", Name |-> "test.com"]>>

(***************************************************************************)
(* C16: ListZonesByName(name) returns exactly the zones of ListZones whose *)
(* Name equals name, in listing order; an entry of another service type    *)
(* with that name is never returned, and no match gives an empty result    *)
(* with no error.                                                          *)
(***************************************************************************)
C16_ListZonesByNameExact ==
    \A c \in Callers :
        (Returned(c, "ListZonesByName") /\ Decoded(c)) =>
            LET zl == ListZonesFinish(apiRequest(resp[c]))
                services == AnswerServices(resp[c].body)
                named == {i \in DOMAIN zl.zones : zl.zones[i].Name = args[c].zone}
            IN /\ ret[c].err = NoError
               /\ IsSubsequenceAt(ret[c].zones, zl.zones, named)
               /\ Len(ret[c].zones) =
                     Cardinality({i \in DOMAIN services :
                                    /\ GetServiceType(services[i]) = "domain"
                                    /\ GetDomain(services[i]) = args[c].zone})

\* ListZonesByName has returned the one domain of the name and left out
\* a hosting service of the same name.
C16_Witness ==
    \E c \in Callers :
        /\ Returned(c, "ListZonesByName")
        /\ Decoded(c)
        /\ Len(ResponseServices(c)) = 2
        /\ \A i \in 1..2 : Field(ResponseServices(c)[i], "domain", "") = args[c].zone
        /\ ResponseServices(c)[1].service_type = "hosting"
        /\ ResponseServices(c)[2].service_type = "domain"
        /\ ret[c].err = NoError
        /\ Len(ret[c].zones) = 1

(***************************************************************************)
(* C17: normalisation of a service entry does not depend on the spelling   *)
(* of its fields: an entry giving only servtype and dname has the same     *)
(* canonical service type and domain, and yields the same Zone, as the     *)
(* entry giving service_type and domain with the same values.              *)
(***************************************************************************)
\* The entry with its type and domain in the modern spelling.
Modern(obj) ==
    [k \in (DOMAIN obj \ {"servtype", "dname"}) \cup
            (IF "servtype" \in DOMAIN obj THEN {"service_type"} ELSE {}) \cup
            (IF "dname" \in DOMAIN obj THEN {"domain"} ELSE {}) |->
       IF k = "service_type" /\ "servtype" \in DOMAIN obj THEN obj.servtype
       ELSE IF k = "domain" /\ "dname" \in DOMAIN obj THEN obj.dname
       ELSE obj[k]]

LegacyOnly(obj) ==
    {"servtype", "dname"} \subseteq DOMAIN obj /\
    {"service_type", "domain"} \cap DOMAIN obj = {}

C17_SpellingIndependent ==
    \A c \in Callers :
        (Returned(c, "ListZones") /\ Decoded(c)) =>
            LET entries == ResponseServices(c)
                modern == [i \in DOMAIN entries |->
                             IF LegacyOnly(entries[i]) THEN Modern(entries[i])
                             ELSE entries[i]]
            IN /\ \A i \in DOMAIN entries :
                     /\ GetServiceType(Service(entries[i])) = GetServiceType(Service(modern[i]))
                     /\ GetDomain(Service(entries[i])) = GetDomain(Service(modern[i]))
               /\ ret[c].zones = ListZonesFinish(
                                     [body |-> ServiceListBody(modern), err |-> NoError]).zones

\* ListZones has returned the zone of an entry in the legacy spelling.
C17_Witness ==
    \E c \in Callers :
        /\ Returned(c, "ListZones")
        /\ Decoded(c)
        /\ Len(ResponseServices(c)) = 1
        /\ LegacyOnly(ResponseServices(c)[1])
        /\ ret[c].err = NoError
        /\ Len(ret[c].zones) = 1
        /\ ret[c].zones[1].Name = ResponseServices(c)[1].dname
        /\ ret[c].zones[1].Name # ""

(***************************************************************************)
(* C18: GetServiceID yields the same string "12345" for the id given as    *)
(* the string "12345" and as the number 12345; every integral numeric id   *)
(* is rendered as its decimal digits with no fractional part or exponent,  *)
(* and every string id is passed through unchanged.                        *)
(***************************************************************************)
\* The decimal digits of the integral numeric ids.
DecimalDigits(v) ==
    CASE v = GoInt(12345) -> "12345"
      [] v = GoInt(0) -> "0"
      [] v = GoInt(-7) -> "-7"
      [] v = GoFloat64(12345, FALSE, 0) -> "12345"
      [] v = GoFloat64(0, FALSE, 0) -> "0"
      [] v = GoFloat64(1, FALSE, 21) -> "1000000000000000000000"

IsIntegral(v) == v.type = "int" \/ (v.type = "float64" /\ ~v.half)

C18_ServiceIDCanonical ==
    \A c \in Callers :
        /\ Returned(c, "GetServiceID") =>
              LET v == args[c].rr.ServiceID IN
              /\ v.type = "string" => ret[c].id = v.s
              /\ IsIntegral(v) => ret[c].id = DecimalDigits(v)
              /\ v \in {GoString("12345"), GoInt(12345), GoFloat64(12345, FALSE, 0)}
                    => ret[c].id = "12345"
        /\ (Returned(c, "ListZones") /\ Decoded(c)) =>
              \A i \in DOMAIN ResponseServices(c) :
                  LET e == ResponseServices(c)[i] IN
                  ("service_id" \in DOMAIN e /\
                   e.service_id \in {JSONString("12345"), JSONNumber(12345, FALSE, 0)})
                     => GetServiceID(Service(e)) = "12345"

\* GetServiceID has rendered the float64 12345 as "12345".
C18_Witness ==
    \E c \in Callers :
        /\ Returned(c, "GetServiceID")
        /\ args[c].rr.ServiceID = GoFloat64(12345, FALSE, 0)
        /\ ret[c].id = "12345"

(***************************************************************************)
(* C19: ListRecordsByZoneID(id) returns ZoneNotFoundError exactly when the *)
(* successful zone listing contains no zone whose ID equals id, and then   *)
(* issues no records request; whenever the listing contains a zone with    *)
(* that ID, the records request is issued and no ZoneNotFoundError is      *)
(* returned.                                                               *)
(***************************************************************************)
\* The zones ListRecordsByZoneID listed: those of the response in flight
\* while the listing is its only request, those it holds afterwards.
ListedZones(c) ==
    IF Len(calls[c]) = 1 THEN ListZonesFinish(apiRequest(resp[c]))
    ELSE [zones |-> ret[c].zones, err |-> NoError]

HasZoneID(zones, id) == \E i \in DOMAIN zones : zones[i].ID = id

C19_ZoneNotFoundExactly ==
    \A c \in Callers :
        (Returned(c, "ListRecordsByZoneID") /\ ListedZones(c).err = NoError) =>
            LET zones == ListedZones(c).zones
                id == args[c].zone
            IN /\ (ret[c].err.kind = "ZoneNotFoundError") <=> ~HasZoneID(zones, id)
               /\ ~HasZoneID(zones, id) => Len(calls[c]) = 1
               /\ HasZoneID(zones, id) =>
                     /\ Len(calls[c]) = 2
                     /\ calls[c][2].path = "zone/get_resource_records"

(***************************************************************************)
(* C20: ListRecordsByZoneID(id, params), when a zone with that ID exists,  *)
(* issues two calls in order, service/get_list and then                    *)
(* zone/get_resource_records for the Name of the first zone whose ID       *)
(* matches, and returns what ListRecords returns for that zone name with   *)
(* the caller's Name and Type filters; a ZoneName supplied in params is    *)
(* replaced by the resolved name.                                          *)
(***************************************************************************)
C20_ResolveThenDelegate ==
    \A c \in Callers :
        (/\ Returned(c, "ListRecordsByZoneID")
         /\ ListedZones(c).err = NoError
         /\ HasZoneID(ListedZones(c).zones, args[c].zone)) =>
            LET zones == ListedZones(c).zones
                first == CHOOSE i \in DOMAIN zones :
                            /\ zones[i].ID = args[c].zone
                            /\ \A j \in 1..(i - 1) : zones[j].ID # args[c].zone
                delegated == ListRecordsFinish(
                                 ListDNSRecordsParams(zones[first].Name, "",
                                                      args[c].rr.Name, args[c].rr.Type),
                                 apiRequest(resp[c]))
            IN /\ Len(calls[c]) = 2
               /\ calls[c][1].path = "service/get_list"
               /\ calls[c][2].path = "zone/get_resource_records"
               /\ calls[c][2].payload.domains = <<[dname |-> zones[first].Name]>>
               /\ ret[c].records = delegated.records
               /\ ret[c].err = delegated.err

(***************************************************************************)
(* C21: AddRR on success returns a record whose Name, Type, Content and    *)
(* TTL are the caller's params; its ID is the dns_id the remote assigned   *)
(* when the remote reports result "success" for the requested domain and   *)
(* is empty otherwise; it is never taken from an entry of the response     *)
(* that belongs to another domain or that did not succeed.                 *)
(***************************************************************************)
\* The entries of the response in flight to c that report success for
\* the domain zone.
SuccessEntries(c, zone) ==
    {i \in DOMAIN resp[c].body.domains :
        /\ resp[c].body.domains[i].DName = zone
        /\ resp[c].body.domains[i].Result = "success"}

C21_AddRRIDFromRequestedDomain ==
    \A c \in Callers :
        (Returned(c, "AddRR") /\ Len(calls[c]) = 1 /\ ret[c].err = NoError) =>
            LET ok == SuccessEntries(c, args[c].zone) IN
            /\ ret[c].rec.Name = args[c].rr.Name
            /\ ret[c].rec.Type = args[c].rr.Type
            /\ ret[c].rec.Content = args[c].rr.Content
            /\ ret[c].rec.TTL = args[c].rr.TTL
            /\ ok = {} => ret[c].rec.ID = ""
            /\ ok # {} => \E i \in ok : ret[c].rec.ID = resp[c].body.domains[i].DNSID

(***************************************************************************)
(* C22: every record returned by ListRecords, and so by GetRRByName and    *)
(* ListRecordsByZoneID, has TTL = 0 and ID = "", whatever the listing      *)
(* response contains; no TTL and no id is fabricated.                      *)
(***************************************************************************)
C22_ListedRecordsUnsetTTLAndID ==
    \A c \in Callers :
        /\ (pc[c] = "done" /\ op[c] \in {"ListRecords", "ListRecordsByZoneID"}) =>
              \A i \in DOMAIN ret[c].records :
                  ret[c].records[i].TTL = 0 /\ ret[c].records[i].ID = ""
        /\ Returned(c, "GetRRByName") => (ret[c].rec.TTL = 0 /\ ret[c].rec.ID = "")

\* ListRecords has returned the record of a response entry that carries
\* a ttl and a dns_id.
C22_Witness ==
    \E c \in Callers :
        /\ Returned(c, "ListRecords")
        /\ Decoded(c)
        /\ Len(resp[c].body.domains) = 1
        /\ "rrs" \in DOMAIN resp[c].body.domains[1]
        /\ resp[c].body.domains[1].rrs = <<RRWithTTLAndID>>
        /\ Len(ret[c].records) = 1
        /\ ret[c].records[1].Name = "www"
        /\ ret[c].records[1].TTL = 0 /\ ret[c].records[1].ID = ""

(***************************************************************************)
(* C23: each typed error matches exactly its own sentinel under errors.Is  *)
(* and no other, and preserves its field: RecordType, RecordName and       *)
(* ZoneID are the value the caller passed, an HTTPError carries the        *)
(* response's StatusCode and Body, an APIError the envelope's error_text;  *)
(* HTTPError and APIError match no sentinel.                               *)
(***************************************************************************)
Sentinels == {ErrUnsupportedRecordType, ErrRecordNotFound, ErrZoneNotFound}

\* errors.Is(err, target): err is the target, its Is method says so, or
\* the error it wraps is the target.
errorsIs(err, target) ==
    \/ err = target
    \/ Is(err, target)
    \/ err.Cause # "" /\ ErrorString(err.Cause) = target

Matched(err) == {t \in Sentinels : errorsIs(err, t)}

C23_TypedErrorsMatchOwnSentinel ==
    \A c \in Callers :
        pc[c] = "done" =>
            LET err == ret[c].err IN
            /\ err.kind = "UnsupportedRecordTypeError" =>
                  /\ Matched(err) = {ErrUnsupportedRecordType}
                  /\ err.RecordType = args[c].rr.Type
            /\ err.kind = "RecordNotFoundError" =>
                  /\ Matched(err) = {ErrRecordNotFound}
                  /\ err.RecordName = args[c].rr.Name
            /\ err.kind = "ZoneNotFoundError" =>
                  /\ Matched(err) = {ErrZoneNotFound}
                  /\ err.ZoneID = args[c].zone
            /\ err.kind = "HTTPError" =>
                  /\ Matched(err) = {}
                  /\ err.StatusCode = resp[c].status
                  /\ err.Body = resp[c].body
            /\ err.kind = "APIError" =>
                  /\ Matched(err) = {}
                  /\ err.Message = resp[c].body.error_text
            /\ err.kind \in {"error", "nil"} => Matched(err) = {}

\* GetRRByName has returned the RecordNotFoundError of the name "ftp",
\* which matches ErrRecordNotFound and no other sentinel.
C23_Witness ==
    \E c \in Callers :
        /\ Returned(c, "GetRRByName")
        /\ args[c].rr.Name = "ftp"
        /\ ret[c].err.kind = "RecordNotFoundError"
        /\ ret[c].err.RecordName = "ftp"
        /\ errorsIs(ret[c].err, ErrRecordNotFound)
        /\ ~errorsIs(ret[c].err, ErrZoneNotFound)
        /\ ~errorsIs(ret[c].err, ErrUnsupportedRecordType)

(***************************************************************************)
(* C24: when the caller's context is cancelled while an HTTP call is in    *)
(* flight, the operation returns an error that errors.Is classifies as     *)
(* context.Canceled, with no record, zone or listing, and issues no        *)
(* further network call: the calls issued stay those issued when the       *)
(* cancellation struck.  In particular UpdateRR cancelled during its       *)
(* delete call never issues the create call.                               *)
(***************************************************************************)
C24_CancellationStopsOperation ==
    \A c \in Callers :
        cancelledAt[c] # "" =>
            /\ pc[c] \in {cancelledAt[c], "done"}
            /\ resp[c] = CanceledResponse
            /\ cancelledAt[c] \in {"UpdateRR_delete_wait", "ListRecordsByZoneID_zones_wait"}
                   => Len(calls[c]) = 1
            /\ cancelledAt[c] = "UpdateRR_delete_wait" =>
                   \A i \in DOMAIN calls[c] : calls[c][i].path = "zone/remove_record"
            /\ pc[c] = "done" =>
                   /\ errorsIs(ret[c].err, ContextCanceled)
                   /\ ret[c].rec = ZeroRecord
                   /\ ret[c].body = NilBody
                   /\ op[c] \in {"ListZones", "ListZonesByName"} => ret[c].zones = <<>>
                   /\ ret[c].records = <<>>

\* UpdateRR, cancelled while its delete was in flight and after the remote
\* service had removed the record, has returned the cancellation.
C24_Witness ==
    \E c \in Callers :
        /\ Returned(c, "UpdateRR")
        /\ cancelledAt[c] = "UpdateRR_delete_wait"
        /\ Len(calls[c]) = 1
        /\ calls[c][1].served
        /\ zoneRRs # pre[c]
        /\ errorsIs(ret[c].err, ContextCanceled)

(***************************************************************************)
(* C25: no operation modifies a field of the Client after NewClient, and   *)
(* under any interleaving of two callers on one Client each call's request *)
(* payload and result depend only on that call's own arguments and         *)
(* responses: the payloads are built from the caller's zone and record and *)
(* the Client's credentials, and the result from the caller's record and   *)
(* the response to its own last call.                                      *)
(***************************************************************************)
OwnPayload(apiReq) == Marshal(SetCredentials(apiReq, Username, Password))

DeleteFailurePropagates(c) ==
    (/\ pc[c] = "UpdateRR_delete_wait"
     /\ pc'[c] # pc[c]
     /\ IsFailure(resp[c])) =>
        /\ pc'[c] = "done"
        /\ calls'[c] = calls[c]
        /\ Len(calls[c]) = 1
        /\ zoneRRs' = zoneRRs
        /\ ret'[c].rec = ZeroRecord
        /\ ret'[c].err # NoError
        /\ ret'[c].err = apiRequest(resp[c]).err

ValidationFailurePropagates(c) ==
    (op[c] = "UpdateRR" /\ args[c].rr.Type \notin RecordTypes) =>
        /\ pc[c] = "done"
        /\ calls[c] = <<>>
        /\ ret[c].rec = ZeroRecord
        /\ ret[c].err = UnsupportedRecordTypeError(args[c].rr.Type)

C26_UpdatePropagatesDeleteFailure ==
    /\ [](\A c \in Callers : ValidationFailurePropagates(c))
    /\ [][\A c \in Callers : DeleteFailurePropagates(c)]_vars

\* UpdateRR has returned the HTTPError of its delete call, after one call,
\* with the zero record and the zone as it was.
C26_Witness ==
    \E c \in Callers :
        /\ Returned(c, "UpdateRR")
        /\ Len(calls[c]) = 1
        /\ calls[c][1].path = "zone/remove_record"
        /\ ~resp[c].doErr /\ resp[c].status = 500
        /\ ret[c].err = HTTPError(500, resp[c].body)
        /\ ret[c].rec = ZeroRecord
        /\ zoneRRs = pre[c]

(***************************************************************************)
(* C27: AddRR pairs the endpoint and the payload shape by the same record  *)
(* type.  For a supported type the one request goes to that type's add     *)
(* endpoint and its payload carries domains = [{dname: zone}], subdomain = *)
(* the record's name and the content under that type's value field         *)
(* (ipaddr for A and AAAA, canonical_name for CNAME, mail_server for MX,   *)
(* dns_server for NS, text for TXT) and under no other type's field; for   *)
(* an unsupported type no request is sent.                                 *)
(***************************************************************************)
DocumentedValueField ==
    [t \in RecordTypes |->
       CASE t = "A" -> "ipaddr"
         [] t = "AAAA" -> "ipaddr"
         [] t = "CNAME" -> "canonical_name"
         [] t = "MX" -> "mail_server"
         [] t = "NS" -> "dns_server"
         [] t = "TXT" -> "text"]

C27_AddRREndpointAndShapeByType ==
    \A c \in Callers :
        op[c] = "AddRR" =>
            LET t == args[c].rr.Type IN
            IF t \in RecordTypes
            THEN /\ Len(calls[c]) = 1
                 /\ calls[c][1].path = DocumentedAddPath[t]
                 /\ LET payload == calls[c][1].payload
                        field == DocumentedValueField[t]
                    IN /\ DOMAIN payload \ {"ttl"} =
                             {"username", "password", "domains", "subdomain", field}
                       /\ payload.domains = <<[dname |-> args[c].zone]>>
                       /\ payload.subdomain = args[c].rr.Name
                       /\ payload[field] = args[c].rr.Content
            ELSE /\ calls[c] = <<>>
                 /\ pc[c] = "done"
                 /\ ret[c].err = UnsupportedRecordTypeError(t)

\* AddRR of an MX record has sent its content as mail_server to
\* zone/add_mx.
C27_Witness ==
    \E c \in Callers :
        /\ Returned(c, "AddRR")
        /\ args[c].rr.Type = "MX"
        /\ Len(calls[c]) = 1
        /\ calls[c][1].path = "zone/add_mx"
        /\ "mail_server" \in DOMAIN calls[c][1].payload
        /\ calls[c][1].payload.mail_server = args[c].rr.Content
        /\ "ipaddr" \notin DOMAIN calls[c][1].payload
        /\ ret[c].err = NoError

(***************************************************************************)
(* C28: when an entry supplies both spellings, GetServiceType returns      *)
(* service_type unless it is empty, and only then servtype; GetDomain      *)
(* returns domain unless it is empty, and only then dname.  ListZones      *)
(* therefore classifies an entry by service_type alone whenever that is    *)
(* non-empty, and names its zone by domain whenever that is non-empty.     *)
(***************************************************************************)
Preferred(obj, key, legacy) ==
    IF Field(obj, key, "") # "" THEN obj[key] ELSE Field(obj, legacy, "")

C28_PreferredSpellingWins ==
    \A c \in Callers :
        (Returned(c, "ListZones") /\ Decoded(c)) =>
            LET entries == ResponseServices(c)
                domain == {i \in DOMAIN entries :
                              Preferred(entries[i], "service_type", "servtype") = "domain"}
                nameOf == [i \in DOMAIN entries |-> Preferred(entries[i], "domain", "dname")]
                names == [i \in DOMAIN ret[c].zones |-> ret[c].zones[i].Name]
            IN /\ IsSubsequenceAt(names, nameOf, domain)
               /\ \A i \in DOMAIN entries :
                     /\ GetServiceType(Service(entries[i])) =
                           Preferred(entries[i], "service_type", "servtype")
                     /\ GetDomain(Service(entries[i])) =
                           Preferred(entries[i], "domain", "dname")

\* ListZones has left out an entry whose service_type is "hosting" and
\* whose servtype is "domain".
C28_Witness ==
    \E c \in Callers :
        /\ Returned(c, "ListZones")
        /\ Decoded(c)
        /\ Len(ResponseServices(c)) = 1
        /\ Field(ResponseServices(c)[1], "service_type", "") = "hosting"
        /\ Field(ResponseServices(c)[1], "servtype", "") = "domain"
        /\ ret[c].err = NoError
        /\ ret[c].zones = <<>>

(***************************************************************************)
(* C29: a domain entry whose service_id is absent yields a Zone whose ID   *)
(* is the empty string, never a placeholder text, so that                  *)
(* ListRecordsByZoneID cannot resolve a zone through an id the service     *)
(* never sent.                                                             *)
(***************************************************************************)
C29_AbsentServiceIDIsEmpty ==
    \A c \in Callers :
        /\ (Returned(c, "ListZones") /\ Decoded(c)) =>
              LET entries == ResponseServices(c)
                  domain == {i \in DOMAIN entries :
                                Preferred(entries[i], "service_type", "servtype") = "domain"}
              IN \A i \in domain :
                    "service_id" \notin DOMAIN entries[i] =>
                        ret[c].zones[Rank(domain, i)].ID = ""
        /\ (op[c] = "ListRecordsByZoneID" /\ Len(calls[c]) = 2) =>
               args[c].zone # "<nil>"

(***************************************************************************)
(* C30: AddRR and DeleteRR decide success only from the HTTP status and    *)
(* the envelope's error_text.  When the response is a 200 whose body is    *)
(* read and carries no error_text, and no entry of its domains reports     *)
(* "success" (or the list is empty), AddRR returns the caller's record     *)
(* with an empty ID and no error, and DeleteRR returns no error.           *)
(***************************************************************************)
NoDomainSucceeded(body) ==
    \A i \in DOMAIN body.domains : body.domains[i].Result # "success"

C30_SuccessFromStatusAndErrorText ==
    \A c \in Callers :
        /\ (/\ Returned(c, "AddRR") /\ Len(calls[c]) = 1
            /\ ~IsFailure(resp[c])
            /\ resp[c].body.answer_ok
            /\ NoDomainSucceeded(resp[c].body)) =>
               /\ ret[c].err = NoError
               /\ ret[c].rec = [args[c].rr EXCEPT !.ID = ""]
        /\ (/\ Returned(c, "DeleteRR") /\ Len(calls[c]) = 1
            /\ ~IsFailure(resp[c])) =>
               ret[c].err = NoError

\* AddRR has returned the caller's record and no error for a 200 answer
\* whose one domain reports an error, which left the zone as it was.
C30_Witness ==
    \E c \in Callers :
        /\ Returned(c, "AddRR")
        /\ Len(calls[c]) = 1
        /\ ~IsFailure(resp[c])
        /\ resp[c].body.answer_ok
        /\ Len(resp[c].body.domains) = 1
        /\ resp[c].body.domains[1].Result = "error"
        /\ zoneRRs = pre[c]
        /\ ret[c].err = NoError
        /\ ret[c].rec.Name = args[c].rr.Name
        /\ ret[c].rec.ID = ""

====
